---- MODULE Spec2Model ----
(***************************************************************************)
(* Entrepreneur Empire: the Loan Center (LoanManager), the share trading   *)
(* cards (CompanyCard, RealCompanyCard) and the Box Office Studio          *)
(* (BoxOfficeManager), with the game engine behind their callback props.   *)
(*                                                                         *)
(* The view components are modelled from their source.  The engine         *)
(* (hooks/useGameState: onTakeLoan, onRepayLoan, onBuyShares,              *)
(* onSellShares) is not part of the source tree; its effect on the game    *)
(* state is modelled from the written specification and is named Engine*.  *)
(*                                                                         *)
(* Money is counted in whole dollars.  Rates and multipliers are fixed     *)
(* point numbers with Scale = 10^6 units per 1.0; the monthly payment is   *)
(* computed on exact fractions and rounded once, at the end.               *)
(***************************************************************************)
EXTENDS Integers, Sequences, FiniteSets, TLC

VARIABLES
    \* ---- props shared by the dialogs (owned by the engine)
    currentCash,        \* currentCash prop
    \* ---- Loan Center
    loanOffers,         \* loanOffers prop: the catalog, a sequence of offers
    creditScore,        \* creditScore prop
    loans,              \* loans prop: sequence of Loan records
    selectedLoanType,   \* useState 'small'
    loanAmount,         \* useState 1000
    applyLog,           \* the last click on Apply and what it led to
    repayLog,           \* the last onRepayLoan call
    \* ---- share trading cards
    companies,          \* id -> [kind, marketValue, sharesOwned]
    tradeLog,           \* the last onBuyShares / onSellShares call
    tradePrev,          \* the call before it
    nTrades,            \* number of calls so far
    \* ---- Box Office Studio
    filmCompanies,      \* filmCompanies prop: sequence of company ids
    selectedCompanyId,  \* useState ''
    selectedProjectType,\* useState 'movie'
    budget,             \* useState 1000000
    startLog,           \* the last click on Start Production
    boxOfficeProjects,  \* boxOfficeProjects prop: sequence of project records
    projectLog,         \* the last onStartProject call that reached the engine
    \* ---- Auto Box Office Settings
    settings,           \* settings prop: the saved AutoBoxOfficeSettings
    localSettings,      \* useState(settings)
    settingsOpen,       \* isOpen prop of the settings dialog
    updateCalls,        \* the onUpdateSettings calls of the last handler
    \* ---- Save Manager
    saveStatus,         \* saveStatus prop
    currentSaveSlot,    \* currentSaveSlot prop
    saveSlots,          \* saveSlots prop: sequence of slot ids
    newSlotName,        \* useState ''
    isCreatingSlot,     \* useState false
    importFile,         \* useState null
    pendingImports,     \* the onImportSave promises not yet settled
    saveLog,            \* the last handler of the Save Manager and its calls
    importLog,          \* the last onImportSave promise that settled
    \* ---- Create Company
    createOpen,         \* isOpen prop of the Create Company dialog
    selectedIndustry,   \* useState null
    companyName,        \* useState ''
    createLog           \* the last click on Create Company or on an industry

loanVars  == <<loanOffers, creditScore, loans, selectedLoanType, loanAmount,
               applyLog, repayLog>>
tradeVars == <<companies, tradeLog, tradePrev, nTrades>>
boxVars   == <<filmCompanies, selectedCompanyId, selectedProjectType, budget,
               startLog>>
projectVars == <<boxOfficeProjects, projectLog>>
autoVars  == <<settings, localSettings, settingsOpen, updateCalls>>
saveVars  == <<saveStatus, currentSaveSlot, saveSlots, newSlotName, isCreatingSlot,
               importFile, pendingImports, saveLog, importLog>>
createVars == <<createOpen, selectedIndustry, companyName, createLog>>
vars      == <<currentCash, loanVars, tradeVars, boxVars, projectVars, autoVars,
               saveVars, createVars>>

(***************************************************************************)
(* Arithmetic                                                              *)
(***************************************************************************)
Min(a, b) == IF a < b THEN a ELSE b
Max(a, b) == IF a > b THEN a ELSE b

\* one binary digit of b: from <<q, r>> for a * (b \div 2) to <<q, r>> for a * b
MulDivStep(h, a, b, c) ==
    LET t == 2 * h[2] + (b % 2) * (a % c)
    IN  <<2 * h[1] + (b % 2) * (a \div c) + (t \div c), t % c>>

\* <<q, r>> with a * b = q * c + r and 0 <= r < c, without forming a * b
\* (the product of two fixed point numbers does not fit the integer width).
RECURSIVE MulDivQR(_, _, _)
MulDivQR(a, b, c) ==
    IF b = 0 THEN <<0, 0>>
    ELSE CHOOSE r \in {MulDivStep(h, a, b, c) : h \in {MulDivQR(a, b \div 2, c)}} : TRUE

\* floor(a * b / c) for a, b >= 0 and c > 0
MulDiv(a, b, c) ==
    CHOOSE q \in {MulDivQR(t[1], t[2], t[3])[1] : t \in {<<a, b, c>>}} : TRUE

\* 1.0 as a fixed point number
Scale == 1000 * 1000

\* ---- whole numbers of any size: the sequence of their digits to the base
\* LimbBase, the lowest first, without leading zeros (0 is <<>>). The payment
\* formula is evaluated on exact fractions, whose terms do not fit the integer
\* width.
LimbBase == 1000

\* the digit of a at place i
BigDigit(a, i) == IF i \in 1..Len(a) THEN a[i] ELSE 0

\* the digits without the zeros at the high end
BigTrim(a) ==
    LET used == {i \in 1..Len(a) : a[i] # 0}
    IN  IF used = {} THEN <<>>
        ELSE SubSeq(a, 1, CHOOSE i \in used : \A j \in used : j <= i)

\* a whole number below 2^31
BigOf(n) ==
    BigTrim(<<n % LimbBase, (n \div LimbBase) % LimbBase,
              (n \div (LimbBase * LimbBase)) % LimbBase,
              n \div (LimbBase * LimbBase * LimbBase)>>)

\* the number whose places hold any integers x[i] (a sum of x[i] * LimbBase^i
\* that is not negative), in digits: every place passes what exceeds a digit to
\* the next, until none does
RECURSIVE BigCarry(_)
BigCarry(x) ==
    IF \A i \in 1..Len(x) : x[i] \in 0..(LimbBase - 1) THEN BigTrim(x)
    ELSE BigCarry([i \in 1..(Len(x) + 1) |->
                      (IF i <= Len(x) THEN x[i] % LimbBase ELSE 0)
                      + (IF i > 1 THEN x[i - 1] \div LimbBase ELSE 0)] \o <<>>)

\* a + b
BigPlus(a, b) ==
    IF a = <<>> THEN b
    ELSE IF b = <<>> THEN a
    ELSE BigCarry([i \in 1..Max(Len(a), Len(b)) |-> BigDigit(a, i) + BigDigit(b, i)] \o <<>>)

\* a - b for a >= b
BigMinus(a, b) ==
    IF a = <<>> THEN a
    ELSE BigCarry([i \in 1..Len(a) |-> a[i] - BigDigit(b, i)] \o <<>>)

\* the products of the digits of a and b that fall on place k, from the digit j
\* of b on
RECURSIVE BigColumn(_, _, _, _)
BigColumn(a, b, k, j) ==
    IF j > Len(b) THEN 0
    ELSE BigDigit(a, k - j + 1) * b[j] + BigColumn(a, b, k, j + 1)

\* a * b
BigTimes(a, b) ==
    IF a = <<>> \/ b = <<>> THEN <<>>
    ELSE LET long  == IF Len(a) >= Len(b) THEN a ELSE b
             short == IF Len(a) >= Len(b) THEN b ELSE a
         IN  BigCarry([k \in 1..(Len(a) + Len(b) - 1) |-> BigColumn(long, short, k, 1)] \o <<>>)

\* a <= b
BigLeq(a, b) ==
    IF Len(a) # Len(b) THEN Len(a) < Len(b)
    ELSE LET differ == {i \in 1..Len(a) : a[i] # b[i]}
         IN  \/ differ = {}
             \/ LET top == CHOOSE i \in differ : \A j \in differ : j <= i
                IN  a[top] < b[top]

\* Math.pow(a, n) for a whole number a
RECURSIVE BigPow(_, _)
BigPow(a, n) ==
    IF n = 0 THEN BigOf(1)
    ELSE CHOOSE r \in {BigTimes(p, a) : p \in {BigPow(a, n - 1)}} : TRUE

\* floor(a / b) for a quotient below 2^(bit + 1): the binary digits of the
\* quotient from the highest down
RECURSIVE BigQuotient(_, _, _, _)
BigQuotient(a, b, bit, acc) ==
    IF bit < 0 THEN acc
    ELSE LET try == acc + 2^bit
         IN  CHOOSE q \in {BigQuotient(a, b, bit - 1, next) :
                              next \in {IF BigLeq(BigTimes(b, BigOf(try)), a)
                                        THEN try ELSE acc}} : TRUE

\* Not-a-number, the result of 0 / 0: a value apart from every payment (payments
\* are never negative)
NaN == -1

(***************************************************************************)
(* Loan Center: derived values (LoanManager.tsx)                           *)
(***************************************************************************)
LoanTypes == {"small", "medium", "large", "emergency"}

NoOffer == [type |-> "none", minAmount |-> 0, maxAmount |-> 0, baseInterestRate |-> 0,
            termMonths |-> 0, creditScoreRequired |-> 0]

\* loanOffers.find(o => o.type === t): the first offer of that type
RECURSIVE FindOffer(_, _)
FindOffer(offers, t) ==
    IF offers = <<>> THEN NoOffer
    ELSE IF Head(offers).type = t THEN Head(offers)
    ELSE FindOffer(Tail(offers), t)

\* const selectedOffer = loanOffers.find(o => o.type === selectedLoanType)
SelectedOffer == FindOffer(loanOffers, selectedLoanType)

\* the multiplier without its floor and its ceiling
CreditMultiplierUnclamped(score) == MulDiv(Max(850 - score, 0), Scale, 350)

\* the multiplier measured from the low end of the score range
CreditMultiplierRising(score) ==
    Max(Scale \div 2, Min(2 * Scale, MulDiv(Max(score - 300, 0), Scale, 350)))

\* Math.max(0.5, Math.min(2, (850 - creditScore) / 350)), fixed point
CreditMultiplier(score) ==
    Max(Scale \div 2, Min(2 * Scale, MulDiv(Max(850 - score, 0), Scale, 350)))

\* selectedOffer.baseInterestRate * (1 + creditMultiplier * 0.5), fixed point;
\* 0 when no offer is selected
AdjustedInterestRate(offer, score) ==
    IF offer = NoOffer THEN 0
    ELSE MulDiv(offer.baseInterestRate, Scale + CreditMultiplier(score) \div 2, Scale)

\* the credit multiplier as a number of 350ths:
\* Math.max(0.5, Math.min(2, (850 - creditScore) / 350))
CreditMultiplier350(score) == Max(175, Min(700, 850 - score))

\* adjustedInterestRate as the fraction <<numerator, denominator>> it is, with
\* nothing rounded: baseInterestRate * (1 + creditMultiplier * 0.5); 0 when no
\* offer is selected
AdjustedInterestRateExact(offer, score) ==
    IF offer = NoOffer THEN <<0, 1>>
    ELSE <<offer.baseInterestRate * (700 + CreditMultiplier350(score)), 700 * Scale>>

\* the greatest common divisor of two whole numbers, a > 0
RECURSIVE Gcd(_, _)
Gcd(a, b) == IF b = 0 THEN a ELSE Gcd(b, a % b)

\* loanAmount * rate / (1 - Math.pow(1 + rate, -termMonths)) with rate = annual / 12,
\* in 1/units of a dollar, rounded to the nearest; annual is a fraction
\* <<numerator, denominator>>, and 0 / 0 is NaN. With rate = p / q in lowest
\* terms the value is loanAmount * p * (q + p)^n / (q * ((q + p)^n - q^n)).
MonthlyPaymentIn(units, offer, amount, annual) ==
    IF offer = NoOffer THEN 0
    ELSE IF annual[1] = 0 THEN NaN
    ELSE LET whole == Gcd(annual[2], annual[1])
             year  == Gcd(12, annual[1] \div whole)
             p     == BigOf((annual[1] \div whole) \div year)
             q     == BigTimes(BigOf(annual[2] \div whole), BigOf(12 \div year))
             grown == BigPow(BigPlus(q, p), offer.termMonths)
             above == BigTimes(BigTimes(BigOf(2 * amount * units), p), grown)
             below == BigTimes(q, BigMinus(grown, BigPow(q, offer.termMonths)))
         IN  (BigQuotient(above, below, 30, 0) + 1) \div 2

\* the monthly payment in whole dollars
MonthlyPayment(offer, amount, annual) == MonthlyPaymentIn(1, offer, amount, annual)

\* canQualify with a strict comparison
CanQualifyStrict(offer, score) ==
    IF offer = NoOffer THEN FALSE ELSE score > offer.creditScoreRequired

\* canQualify
CanQualify(offer, score) ==
    IF offer = NoOffer THEN FALSE ELSE score >= offer.creditScoreRequired

\* the condition of handleTakeLoan
TakeLoanGuard(offer, score, amount) ==
    /\ offer # NoOffer
    /\ CanQualify(offer, score)
    /\ amount >= offer.minAmount
    /\ amount <= offer.maxAmount

\* {selectedOffer && (... <Button disabled={!canQualify}>)}: the Apply button is
\* on screen and can be clicked
ApplyButtonEnabled(offer, score) == offer # NoOffer /\ CanQualify(offer, score)

\* the values the amount slider can emit: min, min + step, ... up to max,
\* step = minAmount / 10
SliderValues(lo, hi, step) ==
    IF step <= 0 THEN {lo}
    ELSE {lo + k * step : k \in 0..((hi - lo) \div step)}

\* the loan list without the filter on status
AllLoans == 1..Len(loans)

\* loans.filter(l => l.status === 'active'), as the set of positions in loans
ActiveLoans == {i \in 1..Len(loans) : loans[i].status = "active"}

\* the value of the Progress bar of a loan card, in percent:
\* ((loan.totalPayments - loan.remainingPayments) / loan.totalPayments) * 100
LoanProgress(loan) ==
    ((loan.totalPayments - loan.remainingPayments) * 100) \div loan.totalPayments

\* disabled={currentCash < loan.monthlyPayment}
PayEnabled(loan, cash) == ~(cash < loan.monthlyPayment)

\* disabled={currentCash < loan.amount}
PayOffEnabled(loan, cash) == ~(cash < loan.amount)

(***************************************************************************)
(* Loan Center: the inputs of the model                                    *)
(***************************************************************************)
\* the most loans the engine holds
MaxLoans == 1

Offer(t, lo, hi, rate, term, req) ==
    [type |-> t, minAmount |-> lo, maxAmount |-> hi, baseInterestRate |-> rate,
     termMonths |-> term, creditScoreRequired |-> req]

\* a catalog whose small offer starts at the form's initial amount
CatalogA == <<Offer("small", 1000, 1200, 80000, 3, 300),
              Offer("emergency", 10000, 11000, 120000, 12, 300)>>

\* a catalog whose small offer starts above the form's initial amount
CatalogB == <<Offer("small", 2000, 2400, 100000, 2, 700),
              Offer("medium", 5000, 5500, 100000, 4, 700)>>

LoanCatalogs == {CatalogA, CatalogB}

\* credit scores lie in [300, 850]
CreditScores == {300, 500, 700, 850}

LoanCashLevels == {0, 500, 1000, 20000}

(***************************************************************************)
(* Loan Center: the engine behind onTakeLoan and onRepayLoan               *)
(***************************************************************************)
\* accepted iff creditScore >= creditScoreRequired and minAmount <= amount <= maxAmount
EngineQualifies(offer, score, amount) ==
    /\ offer # NoOffer
    /\ score >= offer.creditScoreRequired
    /\ offer.minAmount <= amount
    /\ amount <= offer.maxAmount

\* a Loan record that counts the signing as a payment still to come
EngineNewLoanCountsSigning(id, offer, score, amount) ==
    [id |-> id, loanType |-> offer.type, amount |-> amount, originalAmount |-> amount,
     interestRate |-> AdjustedInterestRate(offer, score),
     monthlyPayment |-> MonthlyPayment(offer, amount,
                                      AdjustedInterestRateExact(offer, score)),
     totalPayments |-> offer.termMonths, remainingPayments |-> offer.termMonths + 1,
     missedPayments |-> 0, status |-> "active", paid |-> 0, payoff |-> FALSE]

\* the Loan record created on acceptance; paid and payoff are history: the number
\* of monthly payments made and whether a payoff with an explicit amount was made
EngineNewLoan(id, offer, score, amount) ==
    [id |-> id, loanType |-> offer.type, amount |-> amount, originalAmount |-> amount,
     interestRate |-> AdjustedInterestRate(offer, score),
     monthlyPayment |-> MonthlyPayment(offer, amount,
                                      AdjustedInterestRateExact(offer, score)),
     totalPayments |-> offer.termMonths, remainingPayments |-> offer.termMonths,
     missedPayments |-> 0, status |-> "active", paid |-> 0, payoff |-> FALSE]

\* what onTakeLoan may return: false always (the engine owns further reasons to
\* refuse), true only for a qualifying request
EngineTakeLoanResults(offer, score, amount, held) ==
    {FALSE} \cup (IF EngineQualifies(offer, score, amount) /\ held < MaxLoans
                  THEN {TRUE} ELSE {})

\* ceil(a / b)
CeilDiv(a, b) == (a + b - 1) \div b

\* the balance of a loan with `due` of its payments still to come: principal is
\* retired in proportion to the payments made, so the balance is the same share
\* of originalAmount as due is of totalPayments. The rounding of a part of a
\* dollar is left open, both whole values are possible.
EngineBalances(loan, due) ==
    {(loan.originalAmount * due) \div loan.totalPayments,
     CeilDiv(loan.originalAmount * due, loan.totalPayments)}

\* repayment that takes the whole payment, interest included, off the balance
EngineRepayWholePayment(loan, pay, explicit) ==
    LET left == loan.amount - Min(pay, loan.amount) IN
    {[loan EXCEPT
        !.amount = left,
        !.remainingPayments = IF left = 0 THEN 0 ELSE loan.remainingPayments - 1,
        !.status = IF left = 0 THEN "paid-off" ELSE loan.status,
        !.paid = IF explicit THEN loan.paid ELSE loan.paid + 1,
        !.payoff = loan.payoff \/ explicit]}

\* repayment, the loan records it may leave. Without an amount it is one
\* scheduled payment of monthlyPayment: one payment fewer remains and the
\* balance follows in proportion. With an amount it is a payoff; the loan card
\* passes the whole balance, the only amount modelled. A balance of 0 makes the
\* loan paid-off.
EngineRepay(loan, pay, explicit) ==
    LET due == IF explicit THEN 0 ELSE loan.remainingPayments - 1 IN
    {[loan EXCEPT
        !.amount = left,
        !.remainingPayments = due,
        !.status = IF left = 0 THEN "paid-off" ELSE loan.status,
        !.paid = IF explicit THEN loan.paid ELSE loan.paid + 1,
        !.payoff = loan.payoff \/ explicit] :
     left \in IF explicit /\ pay # loan.amount THEN {} ELSE EngineBalances(loan, due)}

(***************************************************************************)
(* Loan Center: the form                                                   *)
(***************************************************************************)
InitialLoanType == "small"
InitialLoanAmount == 1000

NoApply == [clicked |-> FALSE, invoked |-> FALSE, success |-> FALSE, type |-> "none",
            amount |-> 0, score |-> 0, reason |-> "none"]

NoLoan == [id |-> 0, loanType |-> "none", amount |-> 0, originalAmount |-> 0,
           interestRate |-> 0, monthlyPayment |-> 0, totalPayments |-> 0,
           remainingPayments |-> 0, missedPayments |-> 0, status |-> "none",
           paid |-> 0, payoff |-> FALSE]

NoRepay == [kind |-> "none", before |-> NoLoan, cash |-> 0, arg |-> 0]

\* what the player is told when a click on Apply does not reach onTakeLoan: a
\* disabled button reads "Credit Score Too Low"; handleTakeLoan has no else branch
RejectionReason(offer, score, amount) ==
    IF offer # NoOffer /\ ~CanQualify(offer, score) THEN "credit-too-low" ELSE "none"

\* onClick of an offer card
SelectOffer(i) ==
    /\ i \in 1..Len(loanOffers)
    /\ creditScore >= loanOffers[i].creditScoreRequired
    /\ selectedLoanType' = loanOffers[i].type
    /\ loanAmount' = loanOffers[i].minAmount
    /\ UNCHANGED <<currentCash, loanOffers, creditScore, loans, applyLog, repayLog,
                   tradeVars, boxVars, projectVars, autoVars, saveVars, createVars>>

\* onValueChange of the amount slider (rendered when an offer is selected)
MoveAmountSlider ==
    /\ SelectedOffer # NoOffer
    /\ \E value \in SliderValues(SelectedOffer.minAmount, SelectedOffer.maxAmount,
                                  SelectedOffer.minAmount \div 10) :
            /\ value # loanAmount
            /\ loanAmount' = value
    /\ UNCHANGED <<currentCash, loanOffers, creditScore, loans, selectedLoanType,
                   applyLog, repayLog, tradeVars, boxVars, projectVars, autoVars, saveVars, createVars>>

\* the engine changes the credit score
CreditScoreChange(score) ==
    /\ score # creditScore
    /\ creditScore' = score
    /\ UNCHANGED <<currentCash, loanOffers, loans, selectedLoanType, loanAmount,
                   applyLog, repayLog, tradeVars, boxVars, projectVars, autoVars, saveVars, createVars>>

\* a click on Apply: the button, then handleTakeLoan, then onTakeLoan
ApplyClick ==
    LET offer == SelectedOffer
        entry == [clicked |-> TRUE, invoked |-> FALSE, success |-> FALSE,
                  type |-> selectedLoanType, amount |-> loanAmount,
                  score |-> creditScore,
                  reason |-> RejectionReason(offer, creditScore, loanAmount)]
    IN  /\ IF ApplyButtonEnabled(offer, creditScore)
                /\ TakeLoanGuard(offer, creditScore, loanAmount)
           THEN \E success \in EngineTakeLoanResults(offer, creditScore, loanAmount,
                                                     Len(loans)) :
                    /\ loans' = IF success
                                THEN Append(loans, EngineNewLoan(Len(loans) + 1, offer,
                                                                 creditScore, loanAmount))
                                ELSE loans
                    /\ loanAmount' = IF success THEN offer.minAmount ELSE loanAmount
                    /\ applyLog' = [entry EXCEPT !.invoked = TRUE, !.success = success,
                                                 !.reason = "none"]
           ELSE /\ applyLog' = entry
                /\ UNCHANGED <<loans, loanAmount>>
        /\ UNCHANGED <<currentCash, loanOffers, creditScore, selectedLoanType, repayLog,
                       tradeVars, boxVars, projectVars, autoVars, saveVars, createVars>>

\* a click on Pay of an active loan's card: onRepayLoan(loan.id)
PayClick(i) ==
    /\ i \in ActiveLoans
    /\ PayEnabled(loans[i], currentCash)
    /\ repayLog' = [kind |-> "pay", before |-> loans[i], cash |-> currentCash, arg |-> 0]
    /\ \E paid \in EngineRepay(loans[i], loans[i].monthlyPayment, FALSE) :
           loans' = [loans EXCEPT ![i] = paid]
    /\ currentCash' = currentCash - loans[i].monthlyPayment
    /\ UNCHANGED <<loanOffers, creditScore, selectedLoanType, loanAmount, applyLog,
                   tradeVars, boxVars, projectVars, autoVars, saveVars, createVars>>

\* a click on Pay Off: onRepayLoan(loan.id, loan.amount)
PayOffClick(i) ==
    /\ i \in ActiveLoans
    /\ PayOffEnabled(loans[i], currentCash)
    /\ repayLog' = [kind |-> "payoff", before |-> loans[i], cash |-> currentCash,
                    arg |-> loans[i].amount]
    /\ \E paid \in EngineRepay(loans[i], loans[i].amount, TRUE) :
           loans' = [loans EXCEPT ![i] = paid]
    /\ currentCash' = currentCash - loans[i].amount
    /\ UNCHANGED <<loanOffers, creditScore, selectedLoanType, loanAmount, applyLog,
                   tradeVars, boxVars, projectVars, autoVars, saveVars, createVars>>

\* the engine declares an active loan defaulted (its delinquency policy)
EngineDefault(i) ==
    /\ i \in 1..Len(loans)
    /\ loans[i].status = "active"
    /\ loans' = [loans EXCEPT ![i].status = "defaulted",
                              ![i].missedPayments = loans[i].missedPayments + 1]
    /\ UNCHANGED <<currentCash, loanOffers, creditScore, selectedLoanType, loanAmount,
                   applyLog, repayLog, tradeVars, boxVars, projectVars, autoVars, saveVars, createVars>>

\* the engine changes the cash (income, spending) while the Loan Center is open
LoanCashChange(cash) ==
    /\ cash # currentCash
    /\ currentCash' = cash
    /\ UNCHANGED <<loanVars, tradeVars, boxVars, projectVars, autoVars, saveVars, createVars>>

(***************************************************************************)
(* Share trading: the cards (CompanyCard.tsx, RealCompaniesModal.tsx)      *)
(***************************************************************************)
\* the buy and sell steps each card offers
CompanyCardSteps == {5, 10, 20}
RealCompanyCardSteps == {1, 5, 10}

CardSteps(kind) == IF kind = "real" THEN RealCompanyCardSteps ELSE CompanyCardSteps

\* const sharesBuyable = 100 - company.sharesOwned
SharesBuyable(company) == 100 - company.sharesOwned

\* the buy buttons of CompanyCard without their disabled attribute
CompanyCardBuyNeverDisabled(company, percentage) == 100 - company.sharesOwned > 0

\* CompanyCard: {sharesBuyable > 0 && ...} and disabled={sharesBuyable < percentage}
CompanyCardBuyEnabled(company, percentage) ==
    SharesBuyable(company) > 0 /\ ~(SharesBuyable(company) < percentage)

\* CompanyCard: {company.sharesOwned > 0 && ...} and
\* disabled={company.sharesOwned < percentage}
CompanyCardSellEnabled(company, percentage) ==
    company.sharesOwned > 0 /\ ~(company.sharesOwned < percentage)

\* RealCompanyCard: {sharesBuyable > 0 && ...} and .filter(p => p <= sharesBuyable)
RealCompanyCardBuyEnabled(company, percentage) ==
    SharesBuyable(company) > 0 /\ percentage <= SharesBuyable(company)

\* RealCompanyCard: {company.sharesOwned > 0 && ...} and
\* .filter(p => p <= company.sharesOwned)
RealCompanyCardSellEnabled(company, percentage) ==
    company.sharesOwned > 0 /\ percentage <= company.sharesOwned

\* a buy button enabled only while more than its step is left to buy
BuyEnabledBelowStep(company, percentage) == SharesBuyable(company) > percentage

BuyEnabled(company, percentage) ==
    IF company.kind = "real" THEN RealCompanyCardBuyEnabled(company, percentage)
    ELSE CompanyCardBuyEnabled(company, percentage)

SellEnabled(company, percentage) ==
    IF company.kind = "real" THEN RealCompanyCardSellEnabled(company, percentage)
    ELSE CompanyCardSellEnabled(company, percentage)

\* realCompanies.filter(company => company.sharesOwned > 0)
OwnedCompanies(cs) == {c \in DOMAIN cs : cs[c].kind = "real" /\ cs[c].sharesOwned > 0}

\* the holding valued by the part that is not owned
HoldingValueOfRest(company) ==
    MulDiv(company.marketValue, company.sharesOwned, 100) - company.marketValue

\* company.marketValue * company.sharesOwned / 100
HoldingValue(company) == MulDiv(company.marketValue, company.sharesOwned, 100)

RECURSIVE SumValues(_, _)
SumValues(cs, ids) ==
    IF ids = {} THEN 0
    ELSE LET c == CHOOSE x \in ids : TRUE
         IN  HoldingValue(cs[c]) + SumValues(cs, ids \ {c})

\* ownedCompanies.reduce((total, company) =>
\*     total + (company.marketValue * company.sharesOwned / 100), 0)
PortfolioValue(cs) == SumValues(cs, OwnedCompanies(cs))

(***************************************************************************)
(* Share trading: the ledger behind onBuyShares and onSellShares           *)
(***************************************************************************)
\* the fee on a sell, in percent: 2 for real companies, 0 for own ventures
RealSellFeePct == 2

\* the fee charged on every sell
EngineSellFeeForAll(kind) == RealSellFeePct

\* no fee on any sell
EngineSellNoFee(kind) == 0

EngineSellFeePct(kind) == IF kind = "real" THEN RealSellFeePct ELSE 0

\* cost = marketValue * (percentage / 100)
EngineCost(company, percentage) == MulDiv(company.marketValue, percentage, 100)

\* proceeds = marketValue * (percentage / 100) * (1 - sellFee)
EngineProceeds(company, percentage) ==
    MulDiv(EngineCost(company, percentage), 100 - EngineSellFeePct(company.kind), 100)

\* the outcome of a buy, decided before anything is changed
EngineBuyResult(company, percentage, cash) ==
    IF company.sharesOwned + percentage > 100 THEN "ExceedsAvailableShares"
    ELSE IF EngineCost(company, percentage) > cash THEN "InsufficientFunds"
    ELSE "ok"

\* the outcome of a sell
EngineSellResult(company, percentage) ==
    IF percentage > company.sharesOwned THEN "failed" ELSE "ok"

EngineBuyShares(company, percentage) ==
    [company EXCEPT !.sharesOwned = company.sharesOwned + percentage]

EngineSellShares(company, percentage) ==
    [company EXCEPT !.sharesOwned = company.sharesOwned - percentage]

(***************************************************************************)
(* Share trading: inputs and actions                                       *)
(***************************************************************************)
\* the most trades followed in one run
MaxTrades == 3

Company(kind, value, owned) == [kind |-> kind, marketValue |-> value, sharesOwned |-> owned]

CompanyIds == {"r1", "r2", "p1"}

\* the holdings the market can start from
InitialHoldings ==
    {[r1 |-> Company("real", 1000000, a), r2 |-> Company("real", 50000, b),
      p1 |-> Company("own", 20000, c)] : a \in {0, 20, 97}, b \in {100}, c \in {85}}

TradeCashLevels == {0, 150000}

\* the percentages a caller other than the cards may pass to the ledger
LedgerSteps == {20}

NoHoldings == [id \in CompanyIds |-> Company("none", 0, 0)]

\* a call of the ledger: its arguments, the companies and the cash it met and
\* its outcome
NoTrade == [op |-> "none", via |-> "none", id |-> "none", percentage |-> 0,
            holdings |-> NoHoldings, cash |-> 0, result |-> "none"]

\* onBuyShares(id, percentage) reaching the ledger
Buy(via, id, percentage) ==
    LET company == companies[id]
        result  == EngineBuyResult(company, percentage, currentCash)
    IN  /\ nTrades < MaxTrades
        /\ nTrades' = nTrades + 1
        /\ tradePrev' = tradeLog
        /\ tradeLog' = [op |-> "buy", via |-> via, id |-> id, percentage |-> percentage,
                        holdings |-> companies, cash |-> currentCash, result |-> result]
        /\ companies' = IF result = "ok"
                        THEN [companies EXCEPT ![id] = EngineBuyShares(company, percentage)]
                        ELSE companies
        /\ currentCash' = IF result = "ok"
                          THEN currentCash - EngineCost(company, percentage)
                          ELSE currentCash
        /\ UNCHANGED <<loanVars, boxVars, projectVars, autoVars, saveVars, createVars>>

\* onSellShares(id, percentage) reaching the ledger
Sell(via, id, percentage) ==
    LET company == companies[id]
        result  == EngineSellResult(company, percentage)
    IN  /\ nTrades < MaxTrades
        /\ nTrades' = nTrades + 1
        /\ tradePrev' = tradeLog
        /\ tradeLog' = [op |-> "sell", via |-> via, id |-> id, percentage |-> percentage,
                        holdings |-> companies, cash |-> currentCash, result |-> result]
        /\ companies' = IF result = "ok"
                        THEN [companies EXCEPT ![id] = EngineSellShares(company, percentage)]
                        ELSE companies
        /\ currentCash' = IF result = "ok"
                          THEN currentCash + EngineProceeds(company, percentage)
                          ELSE currentCash
        /\ UNCHANGED <<loanVars, boxVars, projectVars, autoVars, saveVars, createVars>>

\* a click on a buy button of a card
CardBuyClick(id, percentage) ==
    /\ percentage \in CardSteps(companies[id].kind)
    /\ BuyEnabled(companies[id], percentage)
    /\ Buy("card", id, percentage)

\* a click on a sell button of a card
CardSellClick(id, percentage) ==
    /\ percentage \in CardSteps(companies[id].kind)
    /\ SellEnabled(companies[id], percentage)
    /\ Sell("card", id, percentage)

\* the ledger called with any percentage of its catalog, not through a card
LedgerBuy(id, percentage) == Buy("direct", id, percentage)

LedgerSell(id, percentage) == Sell("direct", id, percentage)

(***************************************************************************)
(* Box Office Studio (BoxOfficeManager in SaveManager.tsx)                 *)
(***************************************************************************)
ProjectType(t, lo, hi) == [type |-> t, minBudget |-> lo, maxBudget |-> hi]

PROJECT_TYPES == <<ProjectType("movie", 1000000, 300000000),
                   ProjectType("series", 500000, 20000000),
                   ProjectType("documentary", 100000, 5000000)>>

NoProjectType == ProjectType("none", 0, 0)

\* PROJECT_TYPES.find(p => p.type === t)
RECURSIVE FindProjectType(_, _)
FindProjectType(types, t) ==
    IF types = <<>> THEN NoProjectType
    ELSE IF Head(types).type = t THEN Head(types)
    ELSE FindProjectType(Tail(types), t)

\* const selectedProjectTypeInfo = PROJECT_TYPES.find(p => p.type === selectedProjectType)
SelectedProjectTypeInfo == FindProjectType(PROJECT_TYPES, selectedProjectType)

\* filmCompanies.find(c => c.id === selectedCompanyId) finds a company
SelectedCompanyFound ==
    \E i \in 1..Len(filmCompanies) : filmCompanies[i] = selectedCompanyId

\* canAffordProject
CanAffordProject(cash, b) == cash >= b

\* a click on a project type card that leaves the budget as it is
BudgetKept(info, b) == b

\* the budget the form holds after a click on a project type card
BudgetAfterTypeClick(info, b) == info.minBudget

\* the budgets the slider can emit: min, min + step, ... up to max, step = minBudget / 10;
\* the model follows the ones listed in BudgetSamples
BudgetSamples == {100000, 110000, 500000, 1000000, 1100000, 5000000, 20000000,
                  300000000}

BudgetSliderValues(info) ==
    {v \in BudgetSamples :
        /\ info.minBudget <= v
        /\ v <= info.maxBudget
        /\ (v - info.minBudget) % (info.minBudget \div 10) = 0}

\* the Start Production button is on screen ({selectedCompany && ...},
\* {selectedProjectTypeInfo && ...}) and not disabled (disabled={!canAffordProject})
StartButtonEnabled(cash, b) ==
    /\ SelectedCompanyFound
    /\ SelectedProjectTypeInfo # NoProjectType
    /\ CanAffordProject(cash, b)

\* the condition of handleStartProject
StartProjectGuard(cash, b) ==
    /\ selectedCompanyId # ""
    /\ SelectedProjectTypeInfo # NoProjectType
    /\ CanAffordProject(cash, b)

\* the engine behind onStartProject: BudgetOutOfRange outside the type's band,
\* InsufficientFunds above the cash
EngineStartResult(info, b, cash) ==
    IF b < info.minBudget \/ b > info.maxBudget THEN "BudgetOutOfRange"
    ELSE IF b > cash THEN "InsufficientFunds"
    ELSE "ok"

\* what onStartProject may return: false always, true only for a valid start
EngineStartResults(info, b, cash) ==
    {FALSE} \cup (IF EngineStartResult(info, b, cash) = "ok" THEN {TRUE} ELSE {})

FilmCompanyIds == <<"f1", "f2">>

BoxCashLevels == {0, 1000000, 300000000}

InitialProjectType == "movie"
InitialBudget == 1000000

NoStart == [clicked |-> FALSE, invoked |-> FALSE, success |-> FALSE, companyId |-> "",
            type |-> "none", budget |-> 0, cash |-> 0]

\* onClick of a company card
SelectCompany(i) ==
    /\ i \in 1..Len(filmCompanies)
    /\ selectedCompanyId # filmCompanies[i]
    /\ selectedCompanyId' = filmCompanies[i]
    /\ UNCHANGED <<currentCash, loanVars, tradeVars, filmCompanies, selectedProjectType,
                   budget, startLog, projectVars, autoVars, saveVars, createVars>>

\* onClick of a project type card (rendered when a company is selected)
SelectProjectType(i) ==
    /\ SelectedCompanyFound
    /\ i \in 1..Len(PROJECT_TYPES)
    /\ selectedProjectType' = PROJECT_TYPES[i].type
    /\ budget' = BudgetAfterTypeClick(PROJECT_TYPES[i], budget)
    /\ UNCHANGED <<currentCash, loanVars, tradeVars, filmCompanies, selectedCompanyId,
                   startLog, projectVars, autoVars, saveVars, createVars>>

\* onValueChange of the budget slider
MoveBudgetSlider(value) ==
    /\ SelectedCompanyFound
    /\ SelectedProjectTypeInfo # NoProjectType
    /\ value \in BudgetSliderValues(SelectedProjectTypeInfo)
    /\ value # budget
    /\ budget' = value
    /\ UNCHANGED <<currentCash, loanVars, tradeVars, filmCompanies, selectedCompanyId,
                   selectedProjectType, startLog, projectVars, autoVars, saveVars, createVars>>

\* a click on Start Production: the button, then handleStartProject, then
\* onStartProject
StartClick ==
    LET info  == SelectedProjectTypeInfo
        entry == [clicked |-> TRUE, invoked |-> FALSE, success |-> FALSE,
                  companyId |-> selectedCompanyId, type |-> selectedProjectType,
                  budget |-> budget, cash |-> currentCash]
    IN  /\ IF StartButtonEnabled(currentCash, budget) /\ StartProjectGuard(currentCash, budget)
           THEN \E success \in EngineStartResults(info, budget, currentCash) :
                    /\ budget' = IF success THEN info.minBudget ELSE budget
                    /\ startLog' = [entry EXCEPT !.invoked = TRUE, !.success = success]
           ELSE /\ startLog' = entry
                /\ UNCHANGED budget
        /\ UNCHANGED <<currentCash, loanVars, tradeVars, filmCompanies, selectedCompanyId,
                       selectedProjectType, projectVars, autoVars, saveVars, createVars>>

\* the player founds a film company while the studio is open
FilmCompanyCreated ==
    /\ Len(filmCompanies) < Len(FilmCompanyIds)
    /\ filmCompanies' = Append(filmCompanies, FilmCompanyIds[Len(filmCompanies) + 1])
    /\ UNCHANGED <<currentCash, loanVars, tradeVars, selectedCompanyId, selectedProjectType,
                   budget, startLog, projectVars, autoVars, saveVars, createVars>>

\* the engine changes the cash while the studio is open
BoxCashChange(cash) ==
    /\ cash # currentCash
    /\ currentCash' = cash
    /\ UNCHANGED <<loanVars, tradeVars, boxVars, projectVars, autoVars, saveVars, createVars>>

(***************************************************************************)
(* Box Office Studio: the project list (BoxOfficeManager in SaveManager.tsx) *)
(***************************************************************************)
\* getOutcomeLabel with the comparisons turned around
GetOutcomeLabelStrict(earnings, budgetOf) ==
    LET tenths == MulDiv(earnings, 10, budgetOf) IN
    IF tenths > 100 THEN "Legendary Hit"
    ELSE IF tenths > 50 THEN "Blockbuster"
    ELSE IF tenths > 20 THEN "Hit"
    ELSE IF tenths > 8 THEN "Moderate Success"
    ELSE "Box Office Flop"

\* getOutcomeLabel: multiplier = earnings / budget, kept in whole tenths (every
\* threshold is a whole number of tenths, so the comparisons are exact)
GetOutcomeLabel(earnings, budgetOf) ==
    LET tenths == MulDiv(earnings, 10, budgetOf) IN
    IF tenths >= 100 THEN "Legendary Hit"
    ELSE IF tenths >= 50 THEN "Blockbuster"
    ELSE IF tenths >= 20 THEN "Hit"
    ELSE IF tenths >= 8 THEN "Moderate Success"
    ELSE "Box Office Flop"

\* getBudgetCategory with inclusive upper ends
GetBudgetCategoryInclusive(b, projectType) ==
    CASE projectType = "movie" ->
            IF b <= 10000000 THEN "Independent"
            ELSE IF b <= 75000000 THEN "Mid-Budget" ELSE "Blockbuster"
      [] projectType = "series" ->
            IF b <= 2000000 THEN "Cable TV"
            ELSE IF b <= 10000000 THEN "Premium TV" ELSE "Prestige Series"
      [] projectType = "documentary" ->
            IF b <= 500000 THEN "Independent"
            ELSE IF b <= 2000000 THEN "Network" ELSE "Major Production"
      [] OTHER -> "Standard"

\* getBudgetCategory
GetBudgetCategory(b, projectType) ==
    CASE projectType = "movie" ->
            IF b < 10000000 THEN "Independent"
            ELSE IF b < 75000000 THEN "Mid-Budget" ELSE "Blockbuster"
      [] projectType = "series" ->
            IF b < 2000000 THEN "Cable TV"
            ELSE IF b < 10000000 THEN "Premium TV" ELSE "Prestige Series"
      [] projectType = "documentary" ->
            IF b < 500000 THEN "Independent"
            ELSE IF b < 2000000 THEN "Network" ELSE "Major Production"
      [] OTHER -> "Standard"

\* const outcome = project.status === 'released' ? getOutcomeLabel(...) : null
ProjectOutcome(project) ==
    IF project.status = "released"
    THEN GetOutcomeLabel(project.grossEarnings, project.budget)
    ELSE "null"

\* const budgetCategory = getBudgetCategory(project.budget, project.type)
ProjectBudgetCategory(project) == GetBudgetCategory(project.budget, project.type)

\* ---- the engine behind the list
\* the most projects the list holds
MaxProjects == 1

\* the project created by a start that succeeds
EngineNewProject(t, b) ==
    [type |-> t, budget |-> b, status |-> "in-production", grossEarnings |-> 0]

\* the release: grossEarnings is assigned once, when the project is released
EngineRelease(project, gross) ==
    [project EXCEPT !.status = "released", !.grossEarnings = gross]

\* a released project leaves the cinemas
EngineComplete(project) == [project EXCEPT !.status = "completed"]

\* the budgets callers of onStartProject pass: the form's and the automatic
\* productions', around every threshold of the classifier
ProjectBudgets == {80000, 100000, 499999, 500000, 2000000, 5000000, 9999999,
                   10000000, 50000000, 75000000}

\* gross earnings around every threshold of the outcome bands
GrossSamples(b) ==
    {0, CeilDiv(4 * b, 5) - 1, CeilDiv(4 * b, 5), 2 * b, 5 * b, 10 * b - 1, 10 * b}

ProjectCashLevels == {0, 100000000}

NoProjectCall == [type |-> "none", budget |-> 0, cash |-> 0, result |-> "none"]

\* onStartProject(companyId, type, budget) reaching the engine
StartProject(t, b) ==
    LET result == EngineStartResult(FindProjectType(PROJECT_TYPES, t), b, currentCash)
    IN  /\ Len(boxOfficeProjects) < MaxProjects
        /\ projectLog' = [type |-> t, budget |-> b, cash |-> currentCash,
                          result |-> result]
        /\ boxOfficeProjects' = IF result = "ok"
                                THEN Append(boxOfficeProjects, EngineNewProject(t, b))
                                ELSE boxOfficeProjects
        /\ UNCHANGED <<currentCash, loanVars, tradeVars, boxVars, autoVars, saveVars, createVars>>

\* the engine's clock releases a project in production
ProjectReleased(i) ==
    /\ i \in 1..Len(boxOfficeProjects)
    /\ boxOfficeProjects[i].status = "in-production"
    /\ \E gross \in GrossSamples(boxOfficeProjects[i].budget) :
          boxOfficeProjects' =
              [boxOfficeProjects EXCEPT ![i] = EngineRelease(boxOfficeProjects[i], gross)]
    /\ UNCHANGED <<currentCash, loanVars, tradeVars, boxVars, projectLog, autoVars, saveVars, createVars>>

ProjectCompleted(i) ==
    /\ i \in 1..Len(boxOfficeProjects)
    /\ boxOfficeProjects[i].status = "released"
    /\ boxOfficeProjects' =
          [boxOfficeProjects EXCEPT ![i] = EngineComplete(boxOfficeProjects[i])]
    /\ UNCHANGED <<currentCash, loanVars, tradeVars, boxVars, projectLog, autoVars, saveVars, createVars>>

\* the engine changes the cash while the list is shown
ProjectCashChange(cash) ==
    /\ cash # currentCash
    /\ currentCash' = cash
    /\ UNCHANGED <<loanVars, tradeVars, boxVars, projectVars, autoVars, saveVars, createVars>>

(***************************************************************************)
(* Auto Box Office Settings (AutoBoxOfficeSettings.tsx)                    *)
(***************************************************************************)
\* maxInvestmentPercentage is kept in percent (the slider's own unit: the code
\* stores value / 100); every percentage is a multiple of 5, and an estimated
\* budget is kept in twentieths of a dollar, so that
\* availableCash * maxInvestmentPercentage is exact
Twentieths(dollars) == 20 * dollars

AutoSettings(on, reserve, percent, preferred) ==
    [enabled |-> on, minCashReserve |-> reserve, maxInvestmentPercentage |-> percent,
     preferredProjectType |-> preferred, aggressiveness |-> "balanced"]

\* defaultSettings of handleReset
DefaultSettings == AutoSettings(TRUE, 100000, 20, "auto")

\* estimatedBudget taken from the whole cash, the reserve included
EstimatedBudgetOfCash(cash, s) == Max(0, cash) * (s.maxInvestmentPercentage \div 5)

\* estimatedBudget without the floor at 0
EstimatedBudgetSigned(cash, s) ==
    (cash - s.minCashReserve) * (s.maxInvestmentPercentage \div 5)

\* estimatedBudget(), in twentieths of a dollar
EstimatedBudget(cash, s) ==
    Max(0, cash - s.minCashReserve) * (s.maxInvestmentPercentage \div 5)

\* getRecommendedBudgetType with the film threshold of the blockbusters for both
GetRecommendedBudgetTypeNoIndie(b) ==
    IF b >= Twentieths(10000000) THEN "Blockbuster Film"
    ELSE IF b >= Twentieths(500000) THEN "TV Series"
    ELSE IF b >= Twentieths(100000) THEN "Documentary"
    ELSE "Insufficient for realistic production"

\* getRecommendedBudgetType, of a budget in twentieths of a dollar
GetRecommendedBudgetType(b) ==
    IF b >= Twentieths(10000000) THEN "Blockbuster Film"
    ELSE IF b >= Twentieths(1000000) THEN "Independent Film"
    ELSE IF b >= Twentieths(500000) THEN "TV Series"
    ELSE IF b >= Twentieths(100000) THEN "Documentary"
    ELSE "Insufficient for realistic production"

\* const canAffordRealisticProduction = estimatedBudget() >= 100000
CanAffordRealisticProduction(cash, s) == EstimatedBudget(cash, s) >= Twentieths(100000)

\* the values the reserve slider can emit (0 to 1,000,000 by 10,000) that the
\* model follows
ReserveSamples == {0, 10000, 100000, 1000000}

\* the values the investment slider can emit (5 to 50 by 5) that the model follows
InvestmentSamples == {5, 20, 50}

PreferredProjectTypes == {"auto", "movie", "series", "documentary"}

AutoCashLevels == {0, 200000, 1000000, 2000000, 21000000, 151000000}

\* the settings the engine may hold when the dialog is mounted
SavedSettings == {DefaultSettings, AutoSettings(FALSE, 0, 50, "movie")}

\* the levels of the Investment Aggressiveness cards
AggressivenessLevels == {"conservative", "balanced", "aggressive"}

\* what the rest of the program keeps while the settings dialog acts
autoFrame == <<loanVars, tradeVars, boxVars, projectVars, saveVars, createVars>>

\* onValueChange of the Minimum Cash Reserve slider
MoveReserveSlider(value) ==
    /\ settingsOpen
    /\ value # localSettings.minCashReserve
    /\ localSettings' = [localSettings EXCEPT !.minCashReserve = value]
    /\ updateCalls' = <<>>
    /\ UNCHANGED <<currentCash, settings, settingsOpen, autoFrame>>

\* onValueChange of the Max Investment per Project slider
MoveInvestmentSlider(value) ==
    /\ settingsOpen
    /\ value # localSettings.maxInvestmentPercentage
    /\ localSettings' = [localSettings EXCEPT !.maxInvestmentPercentage = value]
    /\ updateCalls' = <<>>
    /\ UNCHANGED <<currentCash, settings, settingsOpen, autoFrame>>

\* onValueChange of the Preferred Project Type select
SelectPreferredType(t) ==
    /\ settingsOpen
    /\ t # localSettings.preferredProjectType
    /\ localSettings' = [localSettings EXCEPT !.preferredProjectType = t]
    /\ updateCalls' = <<>>
    /\ UNCHANGED <<currentCash, settings, settingsOpen, autoFrame>>

\* onClick of an Investment Aggressiveness card
SelectAggressiveness(level) ==
    /\ settingsOpen
    /\ localSettings' = [localSettings EXCEPT !.aggressiveness = level]
    /\ updateCalls' = <<>>
    /\ UNCHANGED <<currentCash, settings, settingsOpen, autoFrame>>

\* onCheckedChange of the master switch
ToggleEnabled ==
    /\ settingsOpen
    /\ localSettings' = [localSettings EXCEPT !.enabled = ~localSettings.enabled]
    /\ updateCalls' = <<>>
    /\ UNCHANGED <<currentCash, settings, settingsOpen, autoFrame>>

\* handleReset
HandleReset ==
    /\ settingsOpen
    /\ localSettings' = DefaultSettings
    /\ updateCalls' = <<>>
    /\ UNCHANGED <<currentCash, settings, settingsOpen, autoFrame>>

\* handleSave with its call of onUpdateSettings left out
HandleSaveDropped(draft) == <<>>

\* handleSave: the calls of onUpdateSettings it makes, in order
HandleSaveCalls(draft) == <<draft>>

\* the engine's onUpdateSettings: the fields given replace the saved ones, and a
\* draft gives every field
EngineUpdateSettings(saved, calls) ==
    IF calls = <<>> THEN saved ELSE calls[Len(calls)]

\* handleSave: onUpdateSettings(localSettings); onClose()
HandleSave ==
    /\ settingsOpen
    /\ updateCalls' = HandleSaveCalls(localSettings)
    /\ settings' = EngineUpdateSettings(settings, updateCalls')
    /\ settingsOpen' = FALSE
    /\ UNCHANGED <<currentCash, localSettings, autoFrame>>

\* the draft kept by a component that stays mounted while its dialog is closed
DraftKept(draft, saved) == draft

\* Cancel, and onOpenChange of the Dialog (Escape, a click outside): onClose()
CancelClick ==
    /\ settingsOpen
    /\ settingsOpen' = FALSE
    /\ updateCalls' = <<>>
    /\ localSettings' = DraftKept(localSettings, settings)
    /\ UNCHANGED <<currentCash, settings, autoFrame>>

\* the parent sets isOpen again: the component was mounted all along, and
\* useState(settings) reads its argument on the first render only
OpenSettings ==
    /\ ~settingsOpen
    /\ settingsOpen' = TRUE
    /\ updateCalls' = <<>>
    /\ localSettings' = DraftKept(localSettings, settings)
    /\ UNCHANGED <<currentCash, settings, autoFrame>>

\* the engine replaces the saved settings (a loaded save, a new game)
SettingsChange(saved) ==
    /\ saved # settings
    /\ settings' = saved
    /\ UNCHANGED <<currentCash, localSettings, settingsOpen, updateCalls, autoFrame>>

\* the engine changes the cash while the dialog is open
AutoCashChange(cash) ==
    /\ cash # currentCash
    /\ currentCash' = cash
    /\ UNCHANGED <<loanVars, tradeVars, boxVars, projectVars, autoVars, saveVars, createVars>>

(***************************************************************************)
(* Text inputs                                                             *)
(***************************************************************************)
\* a text is the sequence of its characters; the inputs followed are made of a
\* blank and a letter
MaxNameLen == 2

Characters == {" ", "a"}

Texts == UNION {[1..n -> Characters] : n \in 0..MaxNameLen}

RECURSIVE TrimStart(_)
TrimStart(text) ==
    IF text # <<>> /\ Head(text) = " " THEN TrimStart(Tail(text)) ELSE text

RECURSIVE TrimEnd(_)
TrimEnd(text) ==
    IF text # <<>> /\ text[Len(text)] = " "
    THEN TrimEnd(SubSeq(text, 1, Len(text) - 1)) ELSE text

\* String.prototype.trim
Trim(text) == TrimEnd(TrimStart(text))

(***************************************************************************)
(* Save Manager (SaveManager.tsx)                                          *)
(***************************************************************************)
SaveStatuses == {"idle", "saving", "saved", "error"}

\* Save Game: disabled={saveStatus === 'saving'}
SaveButtonEnabled(status) == ~(status = "saving")

\* Create: disabled={!newSlotName.trim()}
CreateSlotButtonEnabled(name) == Trim(name) # <<>>

\* handleCreateNewSlot: if (newSlotName.trim())
CreateSlotGuard(name) == Trim(name) # <<>>

\* a delete button on every slot
DeleteButtonOnEverySlot(slotId) == TRUE

\* {slot.id !== 'main' && (<Button onClick={() => onDeleteSave(slot.id)} ...
DeleteButtonShown(slotId) == slotId # "main"

\* {currentSaveSlot !== slot.id && (<Button onClick={() => onLoadSave(slot.id)} ...
LoadButtonShown(slotId, current) == current # slotId

\* the slot lists and the current slots the engine may pass
SlotLists == {<<>>, <<"main">>, <<"main", "s1">>, <<"s1", "main", "s2">>}

SlotIds == {"main", "s1", "s2"}

\* the sequence without its i-th element
RemoveAt(seq, i) == SubSeq(seq, 1, i - 1) \o SubSeq(seq, i + 1, Len(seq))

\* the handlers of the Save Manager record the status they met and the calls of
\* onManualSave and onDeleteSave they made
SaveCall(op, status, manualSaves, deletes) ==
    [op |-> op, status |-> status, manualSaves |-> manualSaves, deletes |-> deletes]

NoSaveCall == SaveCall("none", "idle", <<>>, <<>>)

\* what the rest of the program keeps while the Save Manager acts
saveFrame == <<currentCash, loanVars, tradeVars, boxVars, projectVars, autoVars,
               createVars>>

\* a click on Save Game: onManualSave(); the engine shows a status of its choice
SaveGameClick ==
    /\ SaveButtonEnabled(saveStatus)
    /\ saveLog' = SaveCall("save", saveStatus, <<"current">>, <<>>)
    /\ saveStatus' \in SaveStatuses
    /\ UNCHANGED <<currentSaveSlot, saveSlots, newSlotName, isCreatingSlot, importFile,
                   pendingImports, importLog, saveFrame>>

\* a click on Create New Slot: setIsCreatingSlot(true)
ShowCreateSlot ==
    /\ ~isCreatingSlot
    /\ isCreatingSlot' = TRUE
    /\ saveLog' = SaveCall("show", saveStatus, <<>>, <<>>)
    /\ UNCHANGED <<saveStatus, currentSaveSlot, saveSlots, newSlotName, importFile,
                   pendingImports, importLog, saveFrame>>

\* onChange of the slot name input
TypeSlotName(name) ==
    /\ isCreatingSlot
    /\ name # newSlotName
    /\ newSlotName' = name
    /\ saveLog' = SaveCall("type", saveStatus, <<>>, <<>>)
    /\ UNCHANGED <<saveStatus, currentSaveSlot, saveSlots, isCreatingSlot, importFile,
                   pendingImports, importLog, saveFrame>>

\* a click on Create: the button, then handleCreateNewSlot with
\* onManualSave(timestamp)
CreateSlotClick ==
    /\ isCreatingSlot
    /\ CreateSlotButtonEnabled(newSlotName)
    /\ CreateSlotGuard(newSlotName)
    /\ saveLog' = SaveCall("create", saveStatus, <<"timestamp">>, <<>>)
    /\ saveStatus' \in SaveStatuses
    /\ newSlotName' = <<>>
    /\ isCreatingSlot' = FALSE
    /\ UNCHANGED <<currentSaveSlot, saveSlots, importFile, pendingImports, importLog,
                   saveFrame>>

\* Cancel of the slot form: setIsCreatingSlot(false); setNewSlotName('')
CancelCreateSlot ==
    /\ isCreatingSlot
    /\ isCreatingSlot' = FALSE
    /\ newSlotName' = <<>>
    /\ saveLog' = SaveCall("cancel", saveStatus, <<>>, <<>>)
    /\ UNCHANGED <<saveStatus, currentSaveSlot, saveSlots, importFile, pendingImports,
                   importLog, saveFrame>>

\* a click on the delete button of the i-th slot: onDeleteSave(slot.id), which
\* removes the slot or returns false
DeleteClick(i) ==
    /\ i \in 1..Len(saveSlots)
    /\ DeleteButtonShown(saveSlots[i])
    /\ saveLog' = SaveCall("delete", saveStatus, <<>>, <<saveSlots[i]>>)
    /\ \E deleted \in BOOLEAN :
           saveSlots' = IF deleted THEN RemoveAt(saveSlots, i) ELSE saveSlots
    /\ UNCHANGED <<saveStatus, currentSaveSlot, newSlotName, isCreatingSlot, importFile,
                   pendingImports, importLog, saveFrame>>

\* a click on Load of the i-th slot: onLoadSave(slot.id), which makes the slot
\* the current one or returns false
LoadClick(i) ==
    /\ i \in 1..Len(saveSlots)
    /\ LoadButtonShown(saveSlots[i], currentSaveSlot)
    /\ saveLog' = SaveCall("load", saveStatus, <<>>, <<>>)
    /\ \E loaded \in BOOLEAN :
           currentSaveSlot' = IF loaded THEN saveSlots[i] ELSE currentSaveSlot
    /\ UNCHANGED <<saveStatus, saveSlots, newSlotName, isCreatingSlot, importFile,
                   pendingImports, importLog, saveFrame>>

\* the engine changes the status it shows (a save begins, ends, fails)
SaveStatusChange(status) ==
    /\ status # saveStatus
    /\ saveStatus' = status
    /\ UNCHANGED <<currentSaveSlot, saveSlots, newSlotName, isCreatingSlot, importFile,
                   pendingImports, saveLog, importLog, saveFrame>>

\* ---- import
\* the most onImportSave promises followed at once
MaxPendingImports == 2

ImportFiles == {"a.json", "b.json"}

\* importFile === null
NoFile == "null"

\* Import: disabled={!importFile}
ImportButtonEnabled(file) == file # NoFile

\* a promise that settled: the file it read, its result, and the file selected
\* before and after
ImportSettled(file, success, selected, after) ==
    [file |-> file, success |-> success, selected |-> selected, after |-> after]

NoImport == ImportSettled(NoFile, FALSE, NoFile, NoFile)

\* onChange of the file input: setImportFile(e.target.files?.[0] || null)
ChooseFile(file) ==
    /\ file # importFile
    /\ importFile' = file
    /\ UNCHANGED <<saveStatus, currentSaveSlot, saveSlots, newSlotName, isCreatingSlot,
                   pendingImports, saveLog, importLog, saveFrame>>

\* a click on Import: the button, then handleFileImport up to its await
ImportClick ==
    /\ ImportButtonEnabled(importFile)
    /\ importFile # NoFile
    /\ Len(pendingImports) < MaxPendingImports
    /\ pendingImports' = Append(pendingImports, importFile)
    /\ UNCHANGED <<saveStatus, currentSaveSlot, saveSlots, newSlotName, isCreatingSlot,
                   importFile, saveLog, importLog, saveFrame>>

\* the i-th pending promise settles and handleFileImport resumes:
\* if (success) setImportFile(null)
ImportSettles(i, success) ==
    /\ i \in 1..Len(pendingImports)
    /\ pendingImports' = RemoveAt(pendingImports, i)
    /\ importFile' = IF success THEN NoFile ELSE importFile
    /\ importLog' = ImportSettled(pendingImports[i], success, importFile, importFile')
    /\ UNCHANGED <<saveStatus, currentSaveSlot, saveSlots, newSlotName, isCreatingSlot,
                   saveLog, saveFrame>>

(***************************************************************************)
(* Create Company (CreateCompanyModal)                                     *)
(***************************************************************************)
Industry(id, cost) == [id |-> id, baseCost |-> cost]

\* the industries prop
Industries == <<Industry("retail", 50000), Industry("studio", 250000)>>

\* selectedIndustry === null
NoIndustry == Industry("null", 0)

CreateCashLevels == {0, 50000, 300000}

\* const canAffordIndustry = (industry) => currentCash >= industry.baseCost
CanAffordIndustry(industry, cash) == cash >= industry.baseCost

\* onClick={() => canAffordIndustry(industry) && setSelectedIndustry(industry)}
SelectionAfterClick(selected, industry, cash) ==
    IF CanAffordIndustry(industry, cash) THEN industry ELSE selected

\* Create Company enabled without a look at the cash
CreateButtonIgnoresCash(industry, name, cash) ==
    ~(industry = NoIndustry \/ Trim(name) = <<>>)

\* disabled={!selectedIndustry || !companyName.trim() ||
\*           !canAffordIndustry(selectedIndustry)}
CreateButtonEnabled(industry, name, cash) ==
    ~(industry = NoIndustry \/ Trim(name) = <<>> \/ ~CanAffordIndustry(industry, cash))

\* handleCreate: if (selectedIndustry && companyName.trim())
HandleCreateGuard(industry, name) == industry # NoIndustry /\ Trim(name) # <<>>

\* the form cleared and the dialog closed whatever onCreateCompany returned
CreateFormCleared(industry, name, open, success) == <<NoIndustry, <<>>, FALSE>>

\* handleCreate after onCreateCompany returned: if (success) {
\* setSelectedIndustry(null); setCompanyName(''); onClose() }
CreateFormAfter(industry, name, open, success) ==
    IF success THEN <<NoIndustry, <<>>, FALSE>> ELSE <<industry, name, open>>

\* onCreateCompany returns whether the company was created; the engine creates
\* none the cash cannot pay
EngineCreateResults(industry, cash) ==
    IF cash >= industry.baseCost THEN {TRUE, FALSE} ELSE {FALSE}

\* a click in the dialog: what was clicked, the cash at the click, the call of
\* onCreateCompany if one was made, and the form before and after
CreateEntry(op, clicked, cash, invoked, industryId, name, success, before, after) ==
    [op |-> op, clicked |-> clicked, cash |-> cash, invoked |-> invoked,
     industryId |-> industryId, name |-> name, success |-> success,
     before |-> before, after |-> after]

NoCreate == CreateEntry("none", "null", 0, FALSE, "null", <<>>, FALSE,
                        <<NoIndustry, <<>>, FALSE>>, <<NoIndustry, <<>>, FALSE>>)

\* what the rest of the program keeps while the Create Company dialog acts
createFrame == <<loanVars, tradeVars, boxVars, projectVars, autoVars, saveVars>>

\* a click on the card of the i-th industry
IndustryClick(i) ==
    LET industry == Industries[i]
        form     == <<selectedIndustry, companyName, createOpen>>
    IN  /\ createOpen
        /\ selectedIndustry' = SelectionAfterClick(selectedIndustry, industry, currentCash)
        /\ createLog' = CreateEntry("industry", industry.id, currentCash, FALSE, "null",
                                    <<>>, FALSE, form,
                                    <<selectedIndustry', companyName, createOpen>>)
        /\ UNCHANGED <<currentCash, createOpen, companyName, createFrame>>

\* onChange of the Company Name input, shown once an industry is selected
TypeCompanyName(name) ==
    /\ createOpen
    /\ selectedIndustry # NoIndustry
    /\ name # companyName
    /\ companyName' = name
    /\ createLog' = NoCreate
    /\ UNCHANGED <<currentCash, createOpen, selectedIndustry, createFrame>>

\* a click on Create Company: the button, then handleCreate, then onCreateCompany
CreateClick ==
    LET form == <<selectedIndustry, companyName, createOpen>>
    IN  /\ createOpen
        /\ IF CreateButtonEnabled(selectedIndustry, companyName, currentCash)
                /\ HandleCreateGuard(selectedIndustry, companyName)
           THEN \E success \in EngineCreateResults(selectedIndustry, currentCash) :
                  LET after == CreateFormAfter(selectedIndustry, companyName,
                                               createOpen, success)
                  IN  /\ selectedIndustry' = after[1]
                      /\ companyName' = after[2]
                      /\ createOpen' = after[3]
                      /\ createLog' = CreateEntry("create", "null", currentCash, TRUE,
                                                  selectedIndustry.id, Trim(companyName),
                                                  success, form, after)
           ELSE /\ createLog' = CreateEntry("create", "null", currentCash, FALSE, "null",
                                            <<>>, FALSE, form, form)
                /\ UNCHANGED <<selectedIndustry, companyName, createOpen>>
        /\ UNCHANGED <<currentCash, createFrame>>

\* Cancel, and onOpenChange of the Dialog: onClose()
CreateCancel ==
    /\ createOpen
    /\ createOpen' = FALSE
    /\ createLog' = NoCreate
    /\ UNCHANGED <<currentCash, selectedIndustry, companyName, createFrame>>

\* the parent sets isOpen again
CreateOpen ==
    /\ ~createOpen
    /\ createOpen' = TRUE
    /\ createLog' = NoCreate
    /\ UNCHANGED <<currentCash, selectedIndustry, companyName, createFrame>>

\* the engine changes the cash while the dialog is mounted
CreateCashChange(cash) ==
    /\ cash # currentCash
    /\ currentCash' = cash
    /\ createLog' = NoCreate
    /\ UNCHANGED <<createOpen, selectedIndustry, companyName, createFrame>>

(***************************************************************************)
(* Specifications                                                          *)
(***************************************************************************)
LoanIdle ==
    /\ loanOffers = CatalogA
    /\ creditScore = 850
    /\ loans = <<>>
    /\ selectedLoanType = InitialLoanType
    /\ loanAmount = InitialLoanAmount
    /\ applyLog = NoApply
    /\ repayLog = NoRepay

TradeIdle ==
    /\ companies = [r1 |-> Company("real", 1000000, 0), r2 |-> Company("real", 50000, 0),
                    p1 |-> Company("own", 20000, 100)]
    /\ tradeLog = NoTrade
    /\ tradePrev = NoTrade
    /\ nTrades = 0

BoxIdle ==
    /\ filmCompanies = <<>>
    /\ selectedCompanyId = ""
    /\ selectedProjectType = InitialProjectType
    /\ budget = InitialBudget
    /\ startLog = NoStart

ProjectIdle ==
    /\ boxOfficeProjects = <<>>
    /\ projectLog = NoProjectCall

AutoIdle ==
    /\ settings = DefaultSettings
    /\ localSettings = DefaultSettings
    /\ settingsOpen = FALSE
    /\ updateCalls = <<>>

SaveFormIdle ==
    /\ saveStatus = "idle"
    /\ currentSaveSlot = "main"
    /\ saveSlots = <<"main">>
    /\ newSlotName = <<>>
    /\ isCreatingSlot = FALSE
    /\ saveLog = NoSaveCall

ImportIdle ==
    /\ importFile = NoFile
    /\ pendingImports = <<>>
    /\ importLog = NoImport

SaveIdle == SaveFormIdle /\ ImportIdle

CreateIdle ==
    /\ createOpen = FALSE
    /\ selectedIndustry = NoIndustry
    /\ companyName = <<>>
    /\ createLog = NoCreate

\* ---- the Loan Center's Apply tab
InitLoan ==
    /\ currentCash = 0
    /\ loanOffers \in LoanCatalogs
    /\ creditScore \in CreditScores
    /\ loans = <<>>
    /\ selectedLoanType = InitialLoanType
    /\ loanAmount = InitialLoanAmount
    /\ applyLog = NoApply
    /\ repayLog = NoRepay
    /\ TradeIdle
    /\ BoxIdle
    /\ ProjectIdle
    /\ AutoIdle
    /\ SaveIdle
    /\ CreateIdle

NextLoan ==
    \/ \E i \in 1..2 : SelectOffer(i)
    \/ MoveAmountSlider
    \/ \E score \in CreditScores : CreditScoreChange(score)
    \/ ApplyClick

SpecLoan == InitLoan /\ [][NextLoan]_vars

\* ---- the Loan Center's Manage Loans tab, opened on one accepted loan
CatalogOffers == UNION {{catalog[i] : i \in 1..Len(catalog)} : catalog \in LoanCatalogs}

AcceptedLoans ==
    UNION {{EngineNewLoan(1, offer, score, amount) :
                score \in {x \in CreditScores : x >= offer.creditScoreRequired},
                amount \in SliderValues(offer.minAmount, offer.maxAmount,
                                        offer.minAmount \div 10)} :
           offer \in CatalogOffers}

InitRepay ==
    /\ currentCash \in LoanCashLevels
    /\ loanOffers = CatalogA
    /\ creditScore = 850
    /\ \E loan \in AcceptedLoans : loans = <<loan>>
    /\ selectedLoanType = InitialLoanType
    /\ loanAmount = InitialLoanAmount
    /\ applyLog = NoApply
    /\ repayLog = NoRepay
    /\ TradeIdle
    /\ BoxIdle
    /\ ProjectIdle
    /\ AutoIdle
    /\ SaveIdle
    /\ CreateIdle

NextRepay ==
    \/ \E i \in 1..MaxLoans : PayClick(i)
    \/ \E i \in 1..MaxLoans : PayOffClick(i)
    \/ \E i \in 1..MaxLoans : EngineDefault(i)
    \/ \E cash \in LoanCashLevels : LoanCashChange(cash)

SpecRepay == InitRepay /\ [][NextRepay]_vars

\* ---- the share trading cards
InitTrade ==
    /\ currentCash \in TradeCashLevels
    /\ companies \in InitialHoldings
    /\ tradeLog = NoTrade
    /\ tradePrev = NoTrade
    /\ nTrades = 0
    /\ LoanIdle
    /\ BoxIdle
    /\ ProjectIdle
    /\ AutoIdle
    /\ SaveIdle
    /\ CreateIdle

NextTrade ==
    \/ \E id \in CompanyIds, p \in CompanyCardSteps \cup RealCompanyCardSteps :
            CardBuyClick(id, p)
    \/ \E id \in CompanyIds, p \in CompanyCardSteps \cup RealCompanyCardSteps :
            CardSellClick(id, p)
    \/ \E id \in CompanyIds, p \in LedgerSteps : LedgerBuy(id, p)
    \/ \E id \in CompanyIds, p \in LedgerSteps : LedgerSell(id, p)

SpecTrade == InitTrade /\ [][NextTrade]_vars

\* ---- the Box Office Studio
InitBox ==
    /\ currentCash \in BoxCashLevels
    /\ \E n \in 0..Len(FilmCompanyIds) : filmCompanies = SubSeq(FilmCompanyIds, 1, n)
    /\ selectedCompanyId = IF filmCompanies # <<>> THEN filmCompanies[1] ELSE ""
    /\ selectedProjectType = InitialProjectType
    /\ budget = InitialBudget
    /\ startLog = NoStart
    /\ LoanIdle
    /\ TradeIdle
    /\ ProjectIdle
    /\ AutoIdle
    /\ SaveIdle
    /\ CreateIdle

NextBox ==
    \/ \E i \in 1..Len(FilmCompanyIds) : SelectCompany(i)
    \/ \E i \in 1..3 : SelectProjectType(i)
    \/ \E value \in BudgetSamples : MoveBudgetSlider(value)
    \/ StartClick
    \/ FilmCompanyCreated
    \/ \E cash \in BoxCashLevels : BoxCashChange(cash)

SpecBox == InitBox /\ [][NextBox]_vars

\* ---- the Loan Calculator: every offer, score and amount the form can hold
\* a catalog with an interest-free offer and the offer of 10,000 at 8% over 12 months
CatalogC == <<Offer("small", 1000, 1200, 0, 4, 300),
              Offer("medium", 10000, 12000, 80000, 12, 600)>>

CalcCatalogs == {CatalogA, CatalogB, CatalogC}

\* credit scores over [300, 850], with both sides of the score where the
\* multiplier meets its floor of 0.5
CalcScores == {300 + 50 * k : k \in 0..11} \cup {674, 675, 676, 849}

InitCalc ==
    /\ currentCash = 0
    /\ loanOffers \in CalcCatalogs
    /\ creditScore \in CalcScores
    /\ loans = <<>>
    /\ selectedLoanType = InitialLoanType
    /\ loanAmount = InitialLoanAmount
    /\ applyLog = NoApply
    /\ repayLog = NoRepay
    /\ TradeIdle
    /\ BoxIdle
    /\ ProjectIdle
    /\ AutoIdle
    /\ SaveIdle
    /\ CreateIdle

NextCalc ==
    \/ \E i \in 1..2 : SelectOffer(i)
    \/ MoveAmountSlider
    \/ \E score \in CalcScores : CreditScoreChange(score)

SpecCalc == InitCalc /\ [][NextCalc]_vars

\* ---- the project list of the Box Office Studio
InitProjects ==
    /\ currentCash \in ProjectCashLevels
    /\ boxOfficeProjects = <<>>
    /\ projectLog = NoProjectCall
    /\ LoanIdle
    /\ TradeIdle
    /\ BoxIdle
    /\ AutoIdle
    /\ SaveIdle
    /\ CreateIdle

NextProjects ==
    \/ \E i \in 1..3, b \in ProjectBudgets : StartProject(PROJECT_TYPES[i].type, b)
    \/ \E i \in 1..MaxProjects : ProjectReleased(i)
    \/ \E i \in 1..MaxProjects : ProjectCompleted(i)
    \/ \E cash \in ProjectCashLevels : ProjectCashChange(cash)

SpecProjects == InitProjects /\ [][NextProjects]_vars

\* ---- the Auto Box Office Settings dialog
InitAuto ==
    /\ currentCash \in AutoCashLevels
    /\ settings \in SavedSettings
    /\ localSettings = settings
    /\ settingsOpen = TRUE
    /\ updateCalls = <<>>
    /\ LoanIdle
    /\ TradeIdle
    /\ BoxIdle
    /\ ProjectIdle
    /\ SaveIdle
    /\ CreateIdle

NextAuto ==
    \/ \E value \in ReserveSamples : MoveReserveSlider(value)
    \/ \E value \in InvestmentSamples : MoveInvestmentSlider(value)
    \/ \E t \in PreferredProjectTypes : SelectPreferredType(t)
    \/ ToggleEnabled
    \/ HandleReset
    \/ HandleSave
    \/ OpenSettings
    \/ \E cash \in AutoCashLevels : AutoCashChange(cash)

SpecAuto == InitAuto /\ [][NextAuto]_vars

\* ---- the Auto Box Office Settings dialog opened, edited, closed and opened again
DialogCashLevels == {0, 2000000}

DialogReserveSamples == {0, 100000}

DialogInvestmentSamples == {20, 50}

DialogProjectTypes == {"auto", "movie"}

InitDialog ==
    /\ currentCash \in DialogCashLevels
    /\ settings \in SavedSettings
    /\ localSettings = settings
    /\ settingsOpen \in BOOLEAN
    /\ updateCalls = <<>>
    /\ LoanIdle
    /\ TradeIdle
    /\ BoxIdle
    /\ ProjectIdle
    /\ SaveIdle
    /\ CreateIdle

NextDialog ==
    \/ \E value \in DialogReserveSamples : MoveReserveSlider(value)
    \/ \E value \in DialogInvestmentSamples : MoveInvestmentSlider(value)
    \/ \E t \in DialogProjectTypes : SelectPreferredType(t)
    \/ \E level \in AggressivenessLevels : SelectAggressiveness(level)
    \/ ToggleEnabled
    \/ HandleReset
    \/ HandleSave
    \/ CancelClick
    \/ OpenSettings
    \/ \E saved \in SavedSettings : SettingsChange(saved)
    \/ \E cash \in DialogCashLevels : AutoCashChange(cash)

SpecDialog == InitDialog /\ [][NextDialog]_vars

\* ---- the Save Manager: the save button, the slot form and the slot cards
InitSave ==
    /\ currentCash = 0
    /\ saveStatus \in SaveStatuses
    /\ currentSaveSlot \in SlotIds
    /\ saveSlots \in SlotLists
    /\ newSlotName = <<>>
    /\ isCreatingSlot = FALSE
    /\ saveLog = NoSaveCall
    /\ ImportIdle
    /\ LoanIdle
    /\ TradeIdle
    /\ BoxIdle
    /\ ProjectIdle
    /\ AutoIdle
    /\ CreateIdle

NextSave ==
    \/ SaveGameClick
    \/ ShowCreateSlot
    \/ \E name \in Texts : TypeSlotName(name)
    \/ CreateSlotClick
    \/ CancelCreateSlot
    \/ \E i \in 1..3 : DeleteClick(i)
    \/ \E i \in 1..3 : LoadClick(i)
    \/ \E status \in SaveStatuses : SaveStatusChange(status)

SpecSave == InitSave /\ [][NextSave]_vars

\* ---- the Save Manager: the import of a save file
InitImport ==
    /\ currentCash = 0
    /\ importFile \in ImportFiles \cup {NoFile}
    /\ pendingImports = <<>>
    /\ importLog = NoImport
    /\ SaveFormIdle
    /\ LoanIdle
    /\ TradeIdle
    /\ BoxIdle
    /\ ProjectIdle
    /\ AutoIdle
    /\ CreateIdle

NextImport ==
    \/ \E file \in ImportFiles \cup {NoFile} : ChooseFile(file)
    \/ ImportClick
    \/ \E i \in 1..MaxPendingImports, success \in BOOLEAN : ImportSettles(i, success)

SpecImport == InitImport /\ [][NextImport]_vars

\* ---- the Create Company dialog
InitCreate ==
    /\ currentCash \in CreateCashLevels
    /\ createOpen = TRUE
    /\ selectedIndustry = NoIndustry
    /\ companyName = <<>>
    /\ createLog = NoCreate
    /\ LoanIdle
    /\ TradeIdle
    /\ BoxIdle
    /\ ProjectIdle
    /\ AutoIdle
    /\ SaveIdle

NextCreate ==
    \/ \E i \in 1..Len(Industries) : IndustryClick(i)
    \/ \E name \in Texts : TypeCompanyName(name)
    \/ CreateClick
    \/ CreateCancel
    \/ CreateOpen
    \/ \E cash \in CreateCashLevels : CreateCashChange(cash)

SpecCreate == InitCreate /\ [][NextCreate]_vars

\* ---- the four places a request can be refused, side by side: the Loan Center,
\* the Box Office Studio, the Create Company dialog and the trading cards
FormsCashLevels == {0, 100000, 1000000}

FormsNames == {<<"a">>}

InitForms ==
    /\ currentCash \in FormsCashLevels
    /\ loanOffers = CatalogB
    /\ creditScore = 700
    /\ loans = <<>>
    /\ selectedLoanType = InitialLoanType
    /\ loanAmount = InitialLoanAmount
    /\ applyLog = NoApply
    /\ repayLog = NoRepay
    /\ TradeIdle
    /\ filmCompanies = <<FilmCompanyIds[1]>>
    /\ selectedCompanyId = filmCompanies[1]
    /\ selectedProjectType = InitialProjectType
    /\ budget = InitialBudget
    /\ startLog = NoStart
    /\ ProjectIdle
    /\ AutoIdle
    /\ SaveIdle
    /\ createOpen = TRUE
    /\ selectedIndustry = NoIndustry
    /\ companyName = <<>>
    /\ createLog = NoCreate

NextForms ==
    \/ SelectOffer(1)
    \/ ApplyClick
    \/ StartClick
    \/ IndustryClick(1)
    \/ \E name \in FormsNames : TypeCompanyName(name)
    \/ CreateClick
    \/ CardBuyClick("r1", 10)

SpecForms == InitForms /\ [][NextForms]_vars

(***************************************************************************)
(* Properties of the Loan Center                                           *)
(***************************************************************************)
\* the offer a click on Apply was about
AppliedOffer == FindOffer(loanOffers, applyLog.type)

\* C1: a click on Apply reaches onTakeLoan if and only if, at the click, an offer
\* is selected, creditScore >= offer.creditScoreRequired and
\* offer.minAmount <= loanAmount <= offer.maxAmount.
C1_LoanGating ==
    applyLog.clicked =>
        (applyLog.invoked <=>
            /\ AppliedOffer # NoOffer
            /\ applyLog.score >= AppliedOffer.creditScoreRequired
            /\ AppliedOffer.minAmount <= applyLog.amount
            /\ applyLog.amount <= AppliedOffer.maxAmount)

\* a request forwarded for an offer and an amount other than the initial ones
C1_Witness ==
    /\ applyLog.invoked
    /\ applyLog.type # InitialLoanType
    /\ applyLog.amount > AppliedOffer.minAmount
    /\ applyLog.score = AppliedOffer.creditScoreRequired

\* C2: a request that is not accepted comes back with a reason code that tells
\* the cause: credit-too-low when creditScore < creditScoreRequired,
\* amount-out-of-range when the amount is outside [minAmount, maxAmount]; it is
\* never dropped without one.
C2_RejectionHasReason ==
    (applyLog.clicked /\ ~applyLog.invoked /\ AppliedOffer # NoOffer) =>
        IF applyLog.score < AppliedOffer.creditScoreRequired
        THEN applyLog.reason = "credit-too-low"
        ELSE applyLog.reason = "amount-out-of-range"

\* C9: onRepayLoan is called only for an active loan; without an amount only when
\* currentCash >= monthlyPayment, with the amount loan.amount only when
\* currentCash >= loan.amount.
C9_RepayPrecondition ==
    repayLog.kind # "none" =>
        /\ repayLog.before.status = "active"
        /\ repayLog.kind = "pay" =>
              (repayLog.cash >= repayLog.before.monthlyPayment /\ repayLog.arg = 0)
        /\ repayLog.kind = "payoff" =>
              (repayLog.cash >= repayLog.before.amount
               /\ repayLog.arg = repayLog.before.amount)

\* a monthly payment made, and a loan that can no longer be repaid in the list
C9_Witness ==
    /\ repayLog.kind = "pay"
    /\ \E i \in 1..Len(loans) : loans[i].status \in {"paid-off", "defaulted"}

C11_LoanRecord ==
    \A i \in 1..Len(loans) :
        LET l == loans[i] IN
        /\ \E offer \in CatalogOffers :
              /\ offer.type = l.loanType
              /\ l.totalPayments = offer.termMonths
              /\ offer.minAmount <= l.originalAmount
              /\ l.originalAmount <= offer.maxAmount
        /\ (l.paid = 0 /\ ~l.payoff) =>
              (l.remainingPayments = l.totalPayments /\ l.amount = l.originalAmount)
        /\ 0 <= l.remainingPayments
        /\ l.remainingPayments <= l.totalPayments
        /\ LoanProgress(l) \in 0..100

\* a loan part of the way through its payments
C11_Witness ==
    \E i \in 1..Len(loans) :
        /\ loans[i].status = "active"
        /\ loans[i].paid >= 1
        /\ loans[i].remainingPayments > 0
        /\ loans[i].remainingPayments < loans[i].totalPayments
        /\ LoanProgress(loans[i]) \in 1..99

(***************************************************************************)
(* Properties of the Loan Calculator                                       *)
(***************************************************************************)
\* the rate the calculator shows for the selected offer
ShownRate == AdjustedInterestRate(SelectedOffer, creditScore)

\* the payment the calculator shows, in hundredths of a dollar
ShownPayment ==
    MonthlyPaymentIn(100, SelectedOffer, loanAmount,
                     AdjustedInterestRateExact(SelectedOffer, creditScore))

\* an offer is selected, the score qualifies and the amount is in the offer's range
CalcInRange ==
    /\ SelectedOffer # NoOffer
    /\ creditScore >= SelectedOffer.creditScoreRequired
    /\ SelectedOffer.minAmount <= loanAmount
    /\ loanAmount <= SelectedOffer.maxAmount

\* C12: creditMultiplier = clamp((850 - creditScore) / 350, 0.5, 2.0) and
\* adjustedRate = baseInterestRate * (1 + creditMultiplier * 0.5) for every score
\* in [300, 850] and every offer; at 850 the multiplier is 0.5 and the rate is
\* 1.25 * baseInterestRate (0.08 gives 0.10).
C12_CreditAdjustedRate ==
    LET d == 850 - creditScore
        m == CreditMultiplier(creditScore)
    IN  /\ m = (IF 2 * d <= 350 THEN Scale \div 2
                ELSE IF d >= 700 THEN 2 * Scale
                ELSE (d * Scale) \div 350)
        /\ SelectedOffer # NoOffer =>
              ShownRate = ((SelectedOffer.baseInterestRate \div 1000)
                              * (Scale + m \div 2)) \div 1000
        /\ creditScore = 850 =>
              /\ 2 * m = Scale
              /\ 4 * ShownRate = 5 * SelectedOffer.baseInterestRate
              /\ SelectedOffer.baseInterestRate = 80000 => ShownRate = 100000

\* the offer at 8% shown to a credit score of 850
C12_Witness ==
    /\ creditScore = 850
    /\ SelectedOffer.baseInterestRate = 80000
    /\ ShownRate = 100000
    /\ selectedLoanType # InitialLoanType

\* C13: for a fixed offer and two qualifying credit scores s1 < s2,
\* adjustedRate(s1) >= adjustedRate(s2).
C13_RateMonotone ==
    SelectedOffer # NoOffer =>
        \A s \in CalcScores :
            (SelectedOffer.creditScoreRequired <= s /\ s < creditScore) =>
                AdjustedInterestRate(SelectedOffer, s) >= ShownRate

\* a qualifying lower score that is charged strictly more
C13_Witness ==
    /\ SelectedOffer # NoOffer
    /\ \E s \in CalcScores :
          /\ SelectedOffer.creditScoreRequired <= s
          /\ s < creditScore
          /\ AdjustedInterestRate(SelectedOffer, s) > ShownRate

\* C14: for every offer, qualifying score and amount in range, the payment is a
\* number with monthlyPayment * termMonths >= amount, and
\* adjustedRate >= baseInterestRate.
C14_InterestNeverNegative ==
    CalcInRange =>
        /\ ShownPayment # NaN
        /\ ShownPayment * SelectedOffer.termMonths >= 100 * loanAmount
        /\ ShownRate >= SelectedOffer.baseInterestRate

\* C15: at a rate of 0 the payment is amount / termMonths (to the rounding of a
\* hundredth per payment), never an undefined value.
C15_ZeroRatePayment ==
    (CalcInRange /\ SelectedOffer.baseInterestRate = 0) =>
        /\ ShownPayment # NaN
        /\ ShownPayment * SelectedOffer.termMonths >= 100 * loanAmount - SelectedOffer.termMonths
        /\ ShownPayment * SelectedOffer.termMonths <= 100 * loanAmount + SelectedOffer.termMonths

(***************************************************************************)
(* Properties of share trading                                             *)
(***************************************************************************)
\* the company a call of the ledger was about, as the call met it and as it is now
TradedBefore == tradeLog.holdings[tradeLog.id]
TradedNow == companies[tradeLog.id]

\* C3: a buy with currentOwnership + percentage > 100 fails with
\* ExceedsAvailableShares and changes nothing; a successful buy adds exactly
\* percentage to the ownership and takes exactly marketValue * percentage / 100
\* from the cash; no card forwards a buy that would go above 100, and each card
\* offers its own steps.
C3_BuyShares ==
    tradeLog.op = "buy" =>
        /\ TradedBefore.sharesOwned + tradeLog.percentage > 100 =>
              /\ tradeLog.result = "ExceedsAvailableShares"
              /\ companies = tradeLog.holdings
              /\ currentCash = tradeLog.cash
        /\ tradeLog.result = "ok" =>
              /\ TradedNow.sharesOwned = TradedBefore.sharesOwned + tradeLog.percentage
              /\ 100 * (tradeLog.cash - currentCash)
                    = TradedBefore.marketValue * tradeLog.percentage
              /\ \A id \in CompanyIds \ {tradeLog.id} : companies[id] = tradeLog.holdings[id]
        /\ tradeLog.via = "card" =>
              /\ TradedBefore.sharesOwned + tradeLog.percentage <= 100
              /\ tradeLog.percentage \in
                    (IF TradedBefore.kind = "real" THEN {1, 5, 10} ELSE {5, 10, 20})

\* a buy forwarded by the card of an own venture that fills it up to 100
C3_Witness ==
    /\ tradeLog.op = "buy"
    /\ tradeLog.via = "card"
    /\ tradeLog.result = "ok"
    /\ TradedBefore.kind = "own"
    /\ TradedNow.sharesOwned = 100

\* C4: every company's sharesOwned stays within [0, 100] and the portfolio value
\* is never negative.
C4_OwnershipInvariant ==
    /\ \A id \in CompanyIds : companies[id].sharesOwned \in 0..100
    /\ PortfolioValue(companies) >= 0

\* trades were made, one company is held in full and another not at all
C4_Witness ==
    /\ nTrades >= 2
    /\ tradeLog.result = "ok"
    /\ \E id \in CompanyIds : companies[id].sharesOwned = 100 /\ tradeLog.id = id
    /\ \E id \in CompanyIds : companies[id].sharesOwned = 0
    /\ PortfolioValue(companies) > 0

\* C5: a sell with percentage > currentOwnership fails and changes nothing;
\* otherwise the ownership decreases by exactly percentage and the cash increases
\* by marketValue * (percentage / 100) * (1 - sellFee), sellFee 0.02 for a real
\* company and 0 for an own venture; selling 10% of a real company worth 1,000,000
\* held at 20% yields 98,000 and leaves 10%.
C5_SellShares ==
    tradeLog.op = "sell" =>
        /\ tradeLog.percentage > TradedBefore.sharesOwned =>
              /\ tradeLog.result # "ok"
              /\ companies = tradeLog.holdings
              /\ currentCash = tradeLog.cash
        /\ tradeLog.percentage <= TradedBefore.sharesOwned =>
              /\ tradeLog.result = "ok"
              /\ TradedNow.sharesOwned = TradedBefore.sharesOwned - tradeLog.percentage
              /\ 10000 * (currentCash - tradeLog.cash)
                    = TradedBefore.marketValue * tradeLog.percentage
                        * (IF TradedBefore.kind = "real" THEN 98 ELSE 100)
        /\ (/\ TradedBefore.kind = "real"
            /\ TradedBefore.marketValue = 1000000
            /\ TradedBefore.sharesOwned = 20
            /\ tradeLog.percentage = 10) =>
              (currentCash - tradeLog.cash = 98000 /\ TradedNow.sharesOwned = 10)

\* the sell of the example
C5_Witness ==
    /\ tradeLog.op = "sell"
    /\ TradedBefore = Company("real", 1000000, 20)
    /\ tradeLog.percentage = 10
    /\ currentCash - tradeLog.cash = 98000
    /\ TradedNow.sharesOwned = 10

\* a successful buy followed at once by a successful sell of the same percentage
\* of the same company
RoundTrip ==
    /\ tradePrev.op = "buy"
    /\ tradePrev.result = "ok"
    /\ tradeLog.op = "sell"
    /\ tradeLog.result = "ok"
    /\ tradeLog.id = tradePrev.id
    /\ tradeLog.percentage = tradePrev.percentage

\* C6: buying p% and then selling p% of the same holding at the same market value
\* returns sharesOwned to what it was; the cash ends strictly lower for a real
\* company and exactly where it was for an own venture.
C6_RoundTrip ==
    RoundTrip =>
        /\ TradedNow.sharesOwned = tradePrev.holdings[tradePrev.id].sharesOwned
        /\ TradedNow.marketValue = tradePrev.holdings[tradePrev.id].marketValue
        /\ TradedNow.kind = "real" => currentCash < tradePrev.cash
        /\ TradedNow.kind = "own" => currentCash = tradePrev.cash

\* a round trip through a real company
C6_Witness == RoundTrip /\ TradedNow.kind = "real" /\ tradeLog.via = "card"

\* C7: no buy whose cost exceeds currentCash is forwarded from a card to
\* onBuyShares.
C7_NoUnaffordableBuyForwarded ==
    (tradeLog.op = "buy" /\ tradeLog.via = "card") =>
        TradedBefore.marketValue * tradeLog.percentage <= 100 * tradeLog.cash

(***************************************************************************)
(* Properties of the Box Office Studio                                     *)
(***************************************************************************)
\* the project type a click on Start Production was about
StartedType == FindProjectType(PROJECT_TYPES, startLog.type)

\* C8: the budget of the form always lies in the band of the selected project
\* type; onStartProject is called only with such a budget and only when
\* currentCash >= budget; a click with the budget above the cash calls nothing.
C8_StartProjectGating ==
    /\ SelectedProjectTypeInfo # NoProjectType
    /\ SelectedProjectTypeInfo.minBudget <= budget
    /\ budget <= SelectedProjectTypeInfo.maxBudget
    /\ startLog.invoked =>
          /\ StartedType.minBudget <= startLog.budget
          /\ startLog.budget <= StartedType.maxBudget
          /\ startLog.cash >= startLog.budget
          /\ \E i \in 1..Len(filmCompanies) : filmCompanies[i] = startLog.companyId
    /\ (startLog.clicked /\ startLog.cash < startLog.budget) => ~startLog.invoked

\* a series started on a budget above its minimum after a refused start
C8_Witness ==
    /\ startLog.invoked
    /\ startLog.success
    /\ startLog.type = "series"
    /\ startLog.budget > StartedType.minBudget
    /\ startLog.companyId = "f2"

(***************************************************************************)
(* Properties of the project list                                          *)
(***************************************************************************)
\* the category the thresholds of a type give a budget, read from the top down
CategoryByThresholds(t, b) ==
    CASE t = "movie" ->
            IF b >= 75000000 THEN "Blockbuster"
            ELSE IF b >= 10000000 THEN "Mid-Budget" ELSE "Independent"
      [] t = "series" ->
            IF b >= 10000000 THEN "Prestige Series"
            ELSE IF b >= 2000000 THEN "Premium TV" ELSE "Cable TV"
      [] t = "documentary" ->
            IF b >= 2000000 THEN "Major Production"
            ELSE IF b >= 500000 THEN "Network" ELSE "Independent"

\* C16: the budget category is the step function of (type, budget) with the
\* thresholds 10M / 75M (movie), 2M / 10M (series), 500K / 2M (documentary), for
\* every budget passed to onStartProject and every project of the list; a movie
\* started on 5,000,000 with the cash for it succeeds and is Independent, on
\* 50,000,000 is Mid-Budget, and on 80,000 fails with BudgetOutOfRange.
C16_BudgetCategory ==
    /\ projectLog.type # "none" =>
          GetBudgetCategory(projectLog.budget, projectLog.type)
              = CategoryByThresholds(projectLog.type, projectLog.budget)
    /\ \A i \in 1..Len(boxOfficeProjects) :
          ProjectBudgetCategory(boxOfficeProjects[i])
              = CategoryByThresholds(boxOfficeProjects[i].type, boxOfficeProjects[i].budget)
    /\ (projectLog.type = "movie" /\ projectLog.budget = 5000000
            /\ projectLog.cash >= projectLog.budget) =>
          /\ projectLog.result = "ok"
          /\ GetBudgetCategory(projectLog.budget, projectLog.type) = "Independent"
    /\ (projectLog.type = "movie" /\ projectLog.budget = 50000000
            /\ projectLog.cash >= projectLog.budget) =>
          /\ projectLog.result = "ok"
          /\ GetBudgetCategory(projectLog.budget, projectLog.type) = "Mid-Budget"
    /\ (projectLog.type = "movie" /\ projectLog.budget = 80000) =>
          projectLog.result = "BudgetOutOfRange"

\* a movie started on 5,000,000 and listed as Independent
C16_Witness ==
    /\ projectLog.type = "movie"
    /\ projectLog.budget = 5000000
    /\ projectLog.result = "ok"
    /\ Len(boxOfficeProjects) >= 1
    /\ ProjectBudgetCategory(boxOfficeProjects[Len(boxOfficeProjects)]) = "Independent"

\* C17: a released project with budget > 0 is labelled by grossEarnings / budget:
\* >= 10 Legendary Hit, >= 5 Blockbuster, >= 2 Hit, >= 0.8 Moderate Success,
\* otherwise the flop label; a project that is not released has no label.
C17_OutcomeLabel ==
    \A i \in 1..Len(boxOfficeProjects) :
        LET p == boxOfficeProjects[i]
            e == p.grossEarnings
            b == p.budget
        IN  /\ b > 0
            /\ p.status # "released" => ProjectOutcome(p) = "null"
            /\ p.status = "released" =>
                  ProjectOutcome(p) =
                      (IF e >= 10 * b THEN "Legendary Hit"
                       ELSE IF e >= 5 * b THEN "Blockbuster"
                       ELSE IF e >= 2 * b THEN "Hit"
                       ELSE IF e >= CeilDiv(4 * b, 5) THEN "Moderate Success"
                       ELSE "Box Office Flop")

\* a released project that earned exactly 0.8 times its budget
C17_Witness ==
    \E i \in 1..Len(boxOfficeProjects) :
        /\ boxOfficeProjects[i].status = "released"
        /\ 5 * boxOfficeProjects[i].grossEarnings = 4 * boxOfficeProjects[i].budget
        /\ ProjectOutcome(boxOfficeProjects[i]) = "Moderate Success"

(***************************************************************************)
(* Properties of the Auto Box Office Settings                              *)
(***************************************************************************)
\* the estimate the dialog shows, in twentieths of a dollar
ShownEstimate == EstimatedBudget(currentCash, localSettings)

\* the project type a recommendation of the dialog stands for
RecommendedType(label) ==
    CASE label \in {"Blockbuster Film", "Independent Film"} -> "movie"
      [] label = "TV Series" -> "series"
      [] label = "Documentary" -> "documentary"
      [] OTHER -> "none"

\* C18: estimatedBudget = max(0, currentCash - minCashReserve) *
\* maxInvestmentPercentage; it is never negative, it is 0 whenever
\* currentCash <= minCashReserve, and canAffordRealisticProduction holds exactly
\* when estimatedBudget >= 100000.
C18_EstimatedBudget ==
    LET available == IF currentCash > localSettings.minCashReserve
                     THEN currentCash - localSettings.minCashReserve ELSE 0
        fifths    == localSettings.maxInvestmentPercentage \div 5
    IN  /\ 5 * fifths = localSettings.maxInvestmentPercentage
        /\ ShownEstimate % fifths = 0
        /\ ShownEstimate \div fifths = available
        /\ ShownEstimate >= 0
        /\ currentCash <= localSettings.minCashReserve => ShownEstimate = 0
        /\ CanAffordRealisticProduction(currentCash, localSettings)
              <=> ShownEstimate >= 20 * 100000

\* cash below the reserve: the estimate is 0 and no production is affordable
C18_Witness ==
    /\ currentCash > 0
    /\ currentCash < localSettings.minCashReserve
    /\ ShownEstimate = 0
    /\ ~CanAffordRealisticProduction(currentCash, localSettings)
    /\ settings # localSettings

\* C19: with preferredProjectType = auto the recommended type is the first of
\* movie, series, documentary whose PROJECT_TYPES minBudget is <= estimatedBudget,
\* and there is none exactly when canAffordRealisticProduction is false.
C19_AutoRecommendation ==
    localSettings.preferredProjectType = "auto" =>
        LET affordable == {i \in 1..Len(PROJECT_TYPES) :
                              20 * PROJECT_TYPES[i].minBudget <= ShownEstimate}
            recommended == RecommendedType(GetRecommendedBudgetType(ShownEstimate))
        IN  /\ recommended = "none" <=> affordable = {}
            /\ recommended = "none"
                  <=> ~CanAffordRealisticProduction(currentCash, localSettings)
            /\ affordable # {} =>
                  recommended = (IF PROJECT_TYPES[1].minBudget * 20 <= ShownEstimate
                                 THEN "movie"
                                 ELSE IF PROJECT_TYPES[2].minBudget * 20 <= ShownEstimate
                                 THEN "series" ELSE "documentary")

\* an estimate that affords a series and no movie
C19_Witness ==
    /\ localSettings.preferredProjectType = "auto"
    /\ ShownEstimate >= 20 * 500000
    /\ ShownEstimate < 20 * 1000000
    /\ GetRecommendedBudgetType(ShownEstimate) = "TV Series"

\* C20: the category the dialog reports for an estimate is the one
\* getBudgetCategory gives a movie of that budget: a Blockbuster Film is a movie
\* classified Blockbuster, an Independent Film a movie classified Independent.
C20_PlannerAgreesWithClassifier ==
    LET label == GetRecommendedBudgetType(ShownEstimate)
        b     == ShownEstimate \div 20
    IN  /\ label = "Blockbuster Film" => GetBudgetCategory(b, "movie") = "Blockbuster"
        /\ label = "Independent Film" => GetBudgetCategory(b, "movie") = "Independent"

\* ---- the dialog's lifecycle
\* a handler of the dialog that edits the draft
DraftEdited ==
    \/ \E value \in DialogReserveSamples : MoveReserveSlider(value)
    \/ \E value \in DialogInvestmentSamples : MoveInvestmentSlider(value)
    \/ \E t \in DialogProjectTypes : SelectPreferredType(t)
    \/ \E level \in AggressivenessLevels : SelectAggressiveness(level)
    \/ ToggleEnabled
    \/ HandleReset

\* C21: toggling enabled, moving a slider, choosing a project type or an
\* aggressiveness, Reset to Defaults, Cancel and closing the dialog invoke
\* onUpdateSettings not at all and leave the saved settings and the cash as they
\* are; Save Settings invokes onUpdateSettings exactly once, with the draft as it
\* is, and that draft becomes the saved settings; no handler of the dialog
\* changes the cash.
C21_OnlySaveUpdates ==
    [][/\ (DraftEdited \/ CancelClick \/ OpenSettings) =>
              /\ updateCalls' = <<>>
              /\ settings' = settings
              /\ currentCash' = currentCash
       /\ HandleSave =>
              /\ updateCalls' = <<localSettings>>
              /\ settings' = localSettings
              /\ currentCash' = currentCash
       /\ settings' # settings =>
              \/ HandleSave
              \/ \E saved \in SavedSettings : SettingsChange(saved)]_vars

\* an edited draft was saved: one call, and the saved settings are the draft
C21_Witness ==
    /\ ~settingsOpen
    /\ updateCalls = <<localSettings>>
    /\ settings = localSettings
    /\ settings \notin SavedSettings
    /\ settings.aggressiveness = "aggressive"

\* C27: whenever the dialog is opened, the draft it shows is the saved settings,
\* whatever was edited and cancelled before and however the saved settings
\* changed meanwhile.
C27_DraftDiscardedOnOpen ==
    [][OpenSettings => localSettings' = settings']_vars

\* C29: for a draft within the sliders' ranges and a cash no smaller than the
\* reserve, the estimate leaves the reserve untouched
\* (currentCash - estimatedBudget >= minCashReserve) and is at most half of the
\* cash above the reserve.
C29_ReserveProtected ==
    /\ localSettings.minCashReserve \in 0..1000000
    /\ localSettings.minCashReserve % 10000 = 0
    /\ localSettings.maxInvestmentPercentage \in 5..50
    /\ currentCash >= localSettings.minCashReserve =>
          LET above == currentCash - localSettings.minCashReserve
          IN  /\ (ShownEstimate + 19) \div 20 <= above
              /\ (ShownEstimate + 9) \div 10 <= above

\* the estimate at the most the sliders allow: half of the cash above a reserve
\* of 1,000,000
C29_Witness ==
    /\ localSettings.minCashReserve = 1000000
    /\ localSettings.maxInvestmentPercentage = 50
    /\ currentCash = 21000000
    /\ ShownEstimate = 20 * 10000000

\* ---- the form of the Loan Center
\* C24: in every state of the Loan Center form, the initial one included,
\* loanAmount lies within [minAmount, maxAmount] of the selected offer, and no
\* click on Apply by a player whose credit score qualifies goes without a call
\* of onTakeLoan.
C24_AmountWithinOffer ==
    /\ SelectedOffer # NoOffer =>
          /\ loanAmount >= SelectedOffer.minAmount
          /\ loanAmount <= SelectedOffer.maxAmount
    /\ (applyLog.clicked /\ AppliedOffer # NoOffer
            /\ CanQualify(AppliedOffer, applyLog.score)) => applyLog.invoked

\* ---- the steps the cards offer
\* the largest step of a set of steps
MaxStep(steps) == CHOOSE p \in steps : \A q \in steps : q <= p

\* the buy steps and the sell steps a card offers for a holding
BuySteps(company) == {p \in CardSteps(company.kind) : BuyEnabled(company, p)}
SellSteps(company) == {p \in CardSteps(company.kind) : SellEnabled(company, p)}

\* full ownership is reached from a holding by the buy steps its card offers,
\* the largest one first
RECURSIVE ReachesFull(_)
ReachesFull(company) ==
    \/ company.sharesOwned = 100
    \/ /\ BuySteps(company) # {}
       /\ ReachesFull(EngineBuyShares(company, MaxStep(BuySteps(company))))

\* no ownership is reached from a holding by the sell steps its card offers
RECURSIVE ReachesNone(_)
ReachesNone(company) ==
    \/ company.sharesOwned = 0
    \/ /\ SellSteps(company) # {}
       /\ ReachesNone(EngineSellShares(company, MaxStep(SellSteps(company))))

\* the granularity of a card: whole percents for a real company, multiples of 5
\* for a venture of the player
Granularity(kind) == IF kind = "real" THEN 1 ELSE 5

\* C28: every holding reached by trades keeps the granularity of its card (whole
\* percents for real companies, multiples of 5 for the player's), so below 100
\* some buy step is offered, above 0 some sell step is offered, and the offered
\* steps lead from every reached holding to 0 and to 100.
C28_NoStuckHoldings ==
    \A id \in CompanyIds :
        LET company == companies[id]
        IN  /\ company.sharesOwned \in 0..100
            /\ company.sharesOwned % Granularity(company.kind) = 0
            /\ company.sharesOwned < 100 => BuySteps(company) # {}
            /\ company.sharesOwned > 0 => SellSteps(company) # {}
            /\ ReachesFull(company)
            /\ ReachesNone(company)

\* the player's venture was bought up to 95: only the smallest step is left
C28_Witness ==
    /\ tradeLog.op = "buy"
    /\ tradeLog.via = "card"
    /\ tradeLog.id = "p1"
    /\ tradeLog.result = "ok"
    /\ companies["p1"].sharesOwned = 95
    /\ BuySteps(companies["p1"]) = {5}
    /\ companies["r1"].sharesOwned \in {1, 96, 98}

(***************************************************************************)
(* Properties of the Save Manager                                          *)
(***************************************************************************)
\* C22: onDeleteSave is never called with the slot id main, whatever the list
\* of save slots and whichever slot is the current one.
C22_MainNeverDeleted ==
    \A i \in 1..Len(saveLog.deletes) : saveLog.deletes[i] # "main"

\* a slot was deleted next to main while main was not the current slot
C22_Witness ==
    /\ saveLog.op = "delete"
    /\ saveLog.deletes = <<"s1">>
    /\ \E i \in 1..Len(saveSlots) : saveSlots[i] = "main"
    /\ currentSaveSlot = "s1"

\* C25: no handler of the Save Manager (the Save Game button, the Create New
\* Slot form) calls onManualSave while saveStatus is saving.
C25_NoSaveWhileSaving ==
    saveLog.status = "saving" => saveLog.manualSaves = <<>>

\* C26: at most one onImportSave promise is pending at a time; a successful
\* import clears the selected file only if it is the file it imported; a failed
\* import leaves the selected file in place.
C26_ImportSerialized ==
    /\ Len(pendingImports) <= 1
    /\ importLog # NoImport =>
          importLog.after = (IF importLog.success /\ importLog.selected = importLog.file
                             THEN NoFile ELSE importLog.selected)

(***************************************************************************)
(* Properties of the Create Company dialog                                 *)
(***************************************************************************)
\* the industry of the industries prop with the given id
IndustryById(id) ==
    LET found == {i \in 1..Len(Industries) : Industries[i].id = id}
    IN  IF found = {} THEN NoIndustry ELSE Industries[CHOOSE i \in found : TRUE]

\* C30: onCreateCompany is called only with the id of the selected industry,
\* whose baseCost is at most the cash at the click, and with the company name
\* trimmed and not empty; a click on an industry the cash cannot pay leaves the
\* selection as it was; after a creation that succeeded the selection and the
\* name are cleared and the dialog is closed, after one that failed or was not
\* forwarded the selection and the name are kept and the dialog stays open.
C30_CreateCompanyGating ==
    LET before == createLog.before
        after  == createLog.after
    IN  /\ createLog.invoked =>
              /\ createLog.op = "create"
              /\ before[1] # NoIndustry
              /\ createLog.industryId = before[1].id
              /\ before[1].baseCost <= createLog.cash
              /\ createLog.name # <<>>
              /\ createLog.name = Trim(before[2])
              /\ Head(createLog.name) # " "
              /\ createLog.name[Len(createLog.name)] # " "
        /\ (createLog.op = "industry"
                /\ IndustryById(createLog.clicked).baseCost > createLog.cash) =>
              after = before
        /\ (createLog.op = "create" /\ createLog.invoked /\ createLog.success) =>
              after = <<NoIndustry, <<>>, FALSE>>
        /\ (createLog.op = "create" /\ ~(createLog.invoked /\ createLog.success)) =>
              /\ after = before
              /\ after[3]
        /\ createLog # NoCreate =>
              after = <<selectedIndustry, companyName, createOpen>>

\* a company was created under a name typed with a blank in front
C30_Witness ==
    /\ createLog.op = "create"
    /\ createLog.invoked
    /\ createLog.success
    /\ createLog.before[2] = <<" ", "a">>
    /\ createLog.name = <<"a">>
    /\ createLog.industryId = "studio"
    /\ ~createOpen
    /\ selectedIndustry = NoIndustry
    /\ companyName = <<>>

(***************************************************************************)
(* Properties of refused requests                                          *)
(***************************************************************************)
\* the state of the game the four callbacks act on
gameState == <<currentCash, loans, companies, boxOfficeProjects>>

\* C23: a loan request, a production start, a company creation or a share trade
\* that is refused before its callback, or whose callback returns false, leaves
\* the state of the game and the form of its dialog (loan type and amount,
\* project type and budget, industry and company name) exactly as they were.
C23_NothingAppliedOnFailure ==
    [][/\ (ApplyClick /\ ~(applyLog'.invoked /\ applyLog'.success)) =>
              UNCHANGED <<gameState, selectedLoanType, loanAmount>>
       /\ (StartClick /\ ~(startLog'.invoked /\ startLog'.success)) =>
              UNCHANGED <<gameState, selectedCompanyId, selectedProjectType, budget>>
       /\ (CreateClick /\ ~(createLog'.invoked /\ createLog'.success)) =>
              UNCHANGED <<gameState, selectedIndustry, companyName, createOpen>>
       /\ (nTrades' # nTrades /\ tradeLog'.result # "ok") =>
              UNCHANGED gameState]_vars

\* a creation the engine refused: the industry and the name are still in the
\* form, after a loan request and a buy were refused as well
C23_Witness ==
    /\ createLog.op = "create"
    /\ createLog.invoked
    /\ ~createLog.success
    /\ selectedIndustry # NoIndustry
    /\ companyName = <<"a">>
    /\ createOpen
    /\ applyLog.clicked
    /\ ~applyLog.invoked
    /\ tradeLog.result = "InsufficientFunds"
    /\ startLog.clicked

====
